---- MODULE Spec2Model ----
(***************************************************************************)
(* Vessel data reconciliation: the merger (vessel_merge.py) and the        *)
(* enhancement service (vessel_enhancement.py) of sealog_cloud.            *)
(*                                                                         *)
(* Python values are tagged records [t, s, n]:                             *)
(*   t = "none"  None                                                      *)
(*   t = "str"   a str, s its characters (one-character strings)           *)
(*   t = "num"   an int or float, n its value in thousandths (45.3 is      *)
(*               45300); arithmetic is exact decimal arithmetic            *)
(*   t = "bool"  a bool, n = 1 for True, 0 for False (a bool is an int)    *)
(*   t = "enum"  an Enum member, s the characters of its .value            *)
(* A dict is a function whose DOMAIN is its key set.  A dict handed in by  *)
(* a caller is iterated in the order of FieldOrder.                        *)
(***************************************************************************)
EXTENDS Integers, Sequences, FiniteSets, TLC

None == [t |-> "none", s |-> <<>>, n |-> 0]
Str(q) == [t |-> "str", s |-> q, n |-> 0]
Num(k) == [t |-> "num", s |-> <<>>, n |-> k]
Bool(b) == [t |-> "bool", s |-> <<>>, n |-> IF b THEN 1 ELSE 0]
EnumMember(q) == [t |-> "enum", s |-> q, n |-> 0]
List(q) == [t |-> "list", s |-> q, n |-> 0]

EmptyDict == [x \in {} |-> None]
Get(d, k) == IF k \in DOMAIN d THEN d[k] ELSE None
Put(d, k, v) == [x \in (DOMAIN d) \cup {k} |-> IF x = k THEN v ELSE d[x]]

(***************************************************************************)
(* Python operators on the modelled values                                 *)
(***************************************************************************)
IsNone(v) == v.t = "none"
IsStr(v) == v.t = "str"
IsList(v) == v.t = "list"
\* isinstance(v, (int, float)): bool is a subclass of int
IsNumber(v) == v.t \in {"num", "bool"}
\* hasattr(v, 'value')
HasValueAttr(v) == v.t = "enum"
\* the number a numeric value stands for, in thousandths
NumOf(v) == IF v.t = "bool" THEN v.n * 1000 ELSE v.n
Abs(k) == IF k < 0 THEN 0 - k ELSE k
Max(a, b) == IF a >= b THEN a ELSE b
Min(a, b) == IF a <= b THEN a ELSE b

\* a == b
PyEq(a, b) ==
    IF IsNumber(a) /\ IsNumber(b) THEN NumOf(a) = NumOf(b)
    ELSE a.t = b.t /\ a.s = b.s

\* v == ''
IsEmptyStr(v) == IsStr(v) /\ v.s = <<>>
\* a zero test that no value passes
IsZeroNever(v) == FALSE
\* v == 0
IsZero(v) == IsNumber(v) /\ NumOf(v) = 0
\* bool(v)
Truthy(v) ==
    CASE v.t = "none" -> FALSE
      [] v.t = "str" -> v.s # <<>>
      [] v.t = "list" -> v.s # <<>>
      [] IsNumber(v) -> NumOf(v) # 0
      [] OTHER -> TRUE

DigitChars == {"0", "1", "2", "3", "4", "5", "6", "7", "8", "9"}
DigitVal(c) ==
    CASE c = "0" -> 0 [] c = "1" -> 1 [] c = "2" -> 2 [] c = "3" -> 3
      [] c = "4" -> 4 [] c = "5" -> 5 [] c = "6" -> 6 [] c = "7" -> 7
      [] c = "8" -> 8 [] c = "9" -> 9

\* a > b raises TypeError unless both are numbers or both are strings
OrderRaises(a, b) == ~((IsNumber(a) /\ IsNumber(b)) \/ (IsStr(a) /\ IsStr(b)))
\* p > q on strings of digits: the lexicographic order
RECURSIVE StrGreater(_, _)
StrGreater(p, q) ==
    IF p = << >> THEN FALSE
    ELSE IF q = << >> THEN TRUE
    ELSE IF Head(p) # Head(q) THEN DigitVal(Head(p)) > DigitVal(Head(q))
    ELSE StrGreater(Tail(p), Tail(q))
\* a > b where it does not raise
PyGreater(a, b) ==
    IF IsNumber(a) THEN NumOf(a) > NumOf(b) ELSE StrGreater(a.s, b.s)

\* str.lower() on one character
LowerChar(c) ==
    CASE c = "A" -> "a"
      [] c = "B" -> "b"
      [] c = "F" -> "f"
      [] c = "S" -> "s"
      [] c = "Y" -> "y"
      [] OTHER -> c
Lower(q) == [i \in 1..Len(q) |-> LowerChar(q[i])]

RECURSIVE LStrip(_)
LStrip(q) == IF q # <<>> /\ Head(q) = " " THEN LStrip(Tail(q)) ELSE q
RECURSIVE RStrip(_)
RStrip(q) ==
    IF q # <<>> /\ q[Len(q)] = " " THEN RStrip(SubSeq(q, 1, Len(q) - 1)) ELSE q
\* str.strip()
Strip(q) == RStrip(LStrip(q))

(***************************************************************************)
(* vessel_schema.py: the vessel classes.  A vessel object is               *)
(* [cls, attrs]: its class and its instance attributes (a dict).  The      *)
(* model carries the attributes named in Fields; "destination" is a field  *)
(* of the merge tables that no schema class declares.                      *)
(***************************************************************************)
FieldOrder ==
    << "vessel_name", "imo_number", "mmsi_number", "official_number",
       "vessel_type", "class_notation", "length_overall", "beam",
       "gross_tonnage", "net_tonnage", "build_standards",
       "builder", "max_speed", "superyacht_status", "destination" >>
Fields == {FieldOrder[i] : i \in 1..Len(FieldOrder)}

BaseVesselAttrs ==
    { "vessel_name", "imo_number", "mmsi_number", "official_number",
      "vessel_type", "class_notation", "length_overall", "beam",
      "gross_tonnage", "net_tonnage", "build_standards", "builder" }
YachtSchemaAttrs == BaseVesselAttrs \cup {"max_speed", "superyacht_status"}
SchemaAttrs(cls) == IF cls = "YachtSchema" THEN YachtSchemaAttrs ELSE BaseVesselAttrs

\* BaseVessel() / YachtSchema(): every declared attribute None, the yacht
\* flags False, the list of build standards empty
NewVessel(cls) ==
    [cls |-> cls,
     attrs |-> [f \in SchemaAttrs(cls) |->
                  IF f = "superyacht_status" THEN Bool(FALSE)
                  ELSE IF f = "build_standards" THEN List(<< >>)
                  ELSE None]]

\* setattr(vessel, field, value)
SetAttr(vessel, field, value) ==
    [vessel EXCEPT !.attrs = Put(vessel.attrs, field, value)]
\* getattr(vessel, field, None)
GetAttr(vessel, field) == Get(vessel.attrs, field)

\* VesselType values
TYPE_YACHT == <<"y", "a", "c", "h", "t">>
TYPE_MOTOR_YACHT == <<"m", "o", "t", "o", "r", "_", "y", "a", "c", "h", "t">>
TYPE_SAILING_YACHT == <<"s", "a", "i", "l", "i", "n", "g", "_", "y", "a", "c", "h", "t">>
TYPE_SUPERYACHT == <<"s", "u", "p", "e", "r", "y", "a", "c", "h", "t">>
TYPE_MEGAYACHT == <<"m", "e", "g", "a", "y", "a", "c", "h", "t">>
TYPE_CARGO_SHIP == <<"c", "a", "r", "g", "o", "_", "s", "h", "i", "p">>

(***************************************************************************)
(* vessel_merge.py: tables of VesselDataMerger.__init__                    *)
(***************************************************************************)
VERY_HIGH == 5
HIGH == 4
MEDIUM == 3
LOW == 2
VERY_LOW == 1

MergerSourceReliability ==
    [ marinetraffic |-> HIGH, boat_international |-> MEDIUM, wordpress |-> LOW,
      user_input |-> LOW, manual_entry |-> LOW, imo_registry |-> VERY_HIGH,
      lloyds |-> HIGH, classification_society |-> HIGH, database |-> MEDIUM ]

\* dict.get(key, default) on a table of the service
TableGet(table, key, default) == IF key \in DOMAIN table THEN table[key] ELSE default

\* the table with the identifiers under the reliability policy
FieldMergeStrategiesByReliability ==
    [ imo_number |-> "prefer_reliable", mmsi_number |-> "prefer_reliable",
      official_number |-> "prefer_reliable", class_notation |-> "manual" ]

FieldMergeStrategies ==
    [ imo_number |-> "prefer_existing", mmsi_number |-> "prefer_existing",
      official_number |-> "prefer_existing",
      vessel_name |-> "prefer_reliable", call_sign |-> "prefer_reliable",
      flag_state |-> "prefer_reliable", length_overall |-> "prefer_reliable",
      beam |-> "prefer_reliable", draft |-> "prefer_reliable",
      gross_tonnage |-> "prefer_reliable", year_built |-> "prefer_reliable",
      description |-> "prefer_complete", builder |-> "prefer_complete",
      build_location |-> "prefer_complete",
      last_port |-> "prefer_newer", destination |-> "prefer_newer",
      eta |-> "prefer_newer",
      guest_capacity |-> "prefer_complete", crew_capacity |-> "prefer_complete",
      max_speed |-> "prefer_complete", cruise_speed |-> "prefer_complete",
      range_nm |-> "prefer_complete",
      classification_society |-> "manual", class_notation |-> "manual" ]

MergerFieldTypes ==
    [ length_overall |-> "numeric", beam |-> "numeric", max_speed |-> "numeric",
      gross_tonnage |-> "numeric", net_tonnage |-> "numeric",
      vessel_name |-> "string", imo_number |-> "string", mmsi_number |-> "string",
      official_number |-> "string", builder |-> "string",
      class_notation |-> "string", vessel_type |-> "enum",
      superyacht_status |-> "boolean" ]

\* VesselDataMerger._get_field_type
MergerGetFieldType(field_name) == TableGet(MergerFieldTypes, field_name, "string")

(***************************************************************************)
(* vessel_merge.py: the comparator and the completeness heuristic          *)
(***************************************************************************)
\* a comparator without tolerance and without normalisation
ExactlyEqual(val1, val2) == val1 = val2

\* VesselDataMerger._values_equal
MergerValuesEqual(val1, val2) ==
    IF IsNone(val1) /\ IsNone(val2) THEN TRUE
    ELSE IF IsNone(val1) \/ IsNone(val2) THEN FALSE
    ELSE IF IsNumber(val1) /\ IsNumber(val2)
        THEN Abs(NumOf(val1) - NumOf(val2)) < 10    \* abs(val1 - val2) < 0.01
    ELSE IF IsStr(val1) /\ IsStr(val2)
        THEN Lower(Strip(val1.s)) = Lower(Strip(val2.s))
    ELSE IF HasValueAttr(val1) /\ HasValueAttr(val2) THEN val1.s = val2.s
    ELSE IF HasValueAttr(val1) THEN PyEq(Str(val1.s), val2)
    ELSE IF HasValueAttr(val2) THEN PyEq(val1, Str(val2.s))
    ELSE PyEq(val1, val2)

\* a completeness test that takes the candidate on a tie
IsMoreCompleteOrEqual(val1, val2) ==
    IF IsNone(val1) THEN FALSE
    ELSE IF IsNone(val2) THEN TRUE
    ELSE IF IsStr(val1) /\ IsStr(val2)
        THEN Len(Strip(val1.s)) >= Len(Strip(val2.s))
    ELSE IF IsNumber(val1) /\ IsNumber(val2)
        THEN NumOf(val1) # 0
    ELSE IF IsList(val1) /\ IsList(val2)
        THEN Len(val1.s) >= Len(val2.s)
    ELSE FALSE

\* VesselDataMerger._is_more_complete
IsMoreComplete(val1, val2) ==
    IF IsNone(val1) THEN FALSE
    ELSE IF IsNone(val2) THEN TRUE
    ELSE IF IsStr(val1) /\ IsStr(val2)
        THEN Len(Strip(val1.s)) > Len(Strip(val2.s))
    ELSE IF IsNumber(val1) /\ IsNumber(val2)
        THEN NumOf(val1) # 0 /\ NumOf(val2) = 0
    ELSE IF IsList(val1) /\ IsList(val2)
        THEN Len(val1.s) > Len(val2.s)
    ELSE FALSE

(***************************************************************************)
(* vessel_merge.py: conflicts and their resolution                         *)
(***************************************************************************)
\* the reliability distance taken as the confidence: neither divided by 5
\* nor clamped
MergerConfidenceUnscaled(existing_reliability, new_reliability) ==
    (5 - Abs(existing_reliability - new_reliability)) * 100

\* confidence = min(0.9, max(0.1, (5 - reliability_diff) / 5)), in hundredths
MergerConfidence(existing_reliability, new_reliability) ==
    Min(90, Max(10, (5 - Abs(existing_reliability - new_reliability)) * 20))

\* VesselDataMerger._create_conflict
CreateConflict(field_name, existing_value, new_value, existing_source, new_source) ==
    LET existing_reliability == TableGet(MergerSourceReliability, existing_source, LOW)
        new_reliability == TableGet(MergerSourceReliability, new_source, LOW)
        strategy == TableGet(FieldMergeStrategies, field_name, "prefer_reliable")
    IN  [ field_name |-> field_name,
          existing_value |-> existing_value,
          new_value |-> new_value,
          existing_source |-> existing_source,
          new_source |-> new_source,
          existing_reliability |-> existing_reliability,
          new_reliability |-> new_reliability,
          field_type |-> MergerGetFieldType(field_name),
          suggested_resolution |-> strategy,
          confidence |-> MergerConfidence(existing_reliability, new_reliability) ]

\* a resolver whose reliability policy takes the candidate on a tie
ResolveConflictOnTie(conflict) ==
    IF conflict.suggested_resolution = "prefer_reliable"
    THEN IF conflict.new_reliability >= conflict.existing_reliability
         THEN conflict.new_value ELSE conflict.existing_value
    ELSE IF conflict.suggested_resolution \in {"prefer_new", "prefer_newer"}
        THEN conflict.new_value
    ELSE IF conflict.suggested_resolution = "prefer_existing" THEN conflict.existing_value
    ELSE IF conflict.suggested_resolution = "prefer_complete"
        THEN IF IsMoreComplete(conflict.new_value, conflict.existing_value)
             THEN conflict.new_value ELSE conflict.existing_value
    ELSE None

\* a resolver that always takes the candidate
ResolveConflictTakeNew(conflict) == conflict.new_value

\* a resolver that settles a manual field by taking the candidate
ResolveConflictNoManual(conflict) ==
    IF conflict.suggested_resolution = "prefer_existing" THEN conflict.existing_value
    ELSE IF conflict.suggested_resolution = "prefer_reliable"
        THEN IF conflict.new_reliability > conflict.existing_reliability
             THEN conflict.new_value ELSE conflict.existing_value
    ELSE IF conflict.suggested_resolution = "prefer_complete"
        THEN IF IsMoreComplete(conflict.new_value, conflict.existing_value)
             THEN conflict.new_value ELSE conflict.existing_value
    ELSE conflict.new_value

\* VesselDataMerger._resolve_conflict; None is "manual resolution required"
ResolveConflict(conflict) ==
    LET strategy == conflict.suggested_resolution
    IN  CASE strategy = "prefer_existing" -> conflict.existing_value
          [] strategy = "prefer_new" -> conflict.new_value
          [] strategy = "prefer_reliable" ->
                IF conflict.new_reliability > conflict.existing_reliability
                THEN conflict.new_value ELSE conflict.existing_value
          [] strategy = "prefer_complete" ->
                IF IsMoreComplete(conflict.new_value, conflict.existing_value)
                THEN conflict.new_value ELSE conflict.existing_value
          [] strategy = "prefer_newer" -> conflict.new_value
          [] OTHER -> None

(***************************************************************************)
(* vessel_validation.py: the IMO number check of the validator             *)
(***************************************************************************)
\* VesselValidator.imo_weights
ImoWeights == <<7, 1, 3, 1, 7, 1, 3>>

\* VesselValidator._validate_imo_check_digit, on seven digits
ValidateImoCheckDigit(d) ==
    LET total == d[1] * ImoWeights[1] + d[2] * ImoWeights[2] + d[3] * ImoWeights[3]
                 + d[4] * ImoWeights[4] + d[5] * ImoWeights[5] + d[6] * ImoWeights[6]
    IN  total % 10 = d[7]

\* VesselValidator.validate_imo_number: "" when valid, else the error text
ValidateImoNumber(imo_number) ==
    LET imo_clean == SelectSeq(imo_number, LAMBDA c : c \in DigitChars)
        digits == [i \in 1..Len(imo_clean) |-> DigitVal(imo_clean[i])]
    IN  IF imo_number = <<>> THEN ""
        ELSE IF Len(imo_clean) # 7 THEN "IMO number must be exactly 7 digits"
        ELSE IF ~ValidateImoCheckDigit(digits)
            THEN "Invalid IMO number - check digit verification failed"
        ELSE ""

(***************************************************************************)
(* vessel_merge.py: validation and conversion utilities                    *)
(***************************************************************************)
\* a warning text, with the value its f-string interpolates
Warning(text, value) == [text |-> text, value |-> value]

\* VesselDataMerger._validate_merged_data: the comparison or the validator
\* call that raises TypeError, "" when none does
ValidateMergedDataError(merged_data) ==
    LET loa == Get(merged_data, "length_overall")
        beam == Get(merged_data, "beam")
        max_speed == Get(merged_data, "max_speed")
        imo == Get(merged_data, "imo_number")
    IN  IF /\ "length_overall" \in DOMAIN merged_data /\ "beam" \in DOMAIN merged_data
           /\ Truthy(loa) /\ Truthy(beam) /\ OrderRaises(beam, loa)
        THEN "'>' not supported between instances"
        ELSE IF /\ "max_speed" \in DOMAIN merged_data
                /\ Truthy(max_speed) /\ OrderRaises(max_speed, Num(70 * 1000))
            THEN "'>' not supported between instances of 'str' and 'int'"
        ELSE IF "imo_number" \in DOMAIN merged_data /\ Truthy(imo) /\ ~IsStr(imo)
            THEN "expected string or bytes-like object"
        ELSE ""

\* VesselDataMerger._validate_merged_data: the warnings, when nothing raises
ValidateMergedData(merged_data) ==
    LET loa == Get(merged_data, "length_overall")
        beam == Get(merged_data, "beam")
        max_speed == Get(merged_data, "max_speed")
        imo == Get(merged_data, "imo_number")
        w1 == IF /\ "length_overall" \in DOMAIN merged_data
                 /\ "beam" \in DOMAIN merged_data
                 /\ Truthy(loa) /\ Truthy(beam) /\ PyGreater(beam, loa)
              THEN << Warning("Beam is greater than length overall - please verify", None) >>
              ELSE << >>
        w2 == IF /\ "max_speed" \in DOMAIN merged_data
                 /\ Truthy(max_speed) /\ PyGreater(max_speed, Num(70 * 1000))
              THEN << Warning("Maximum speed seems very high", max_speed) >>
              ELSE << >>
        w3 == IF /\ "imo_number" \in DOMAIN merged_data
                 /\ Truthy(imo) /\ ValidateImoNumber(imo.s) # ""
              THEN << Warning("IMO number validation failed", Str(<<ValidateImoNumber(imo.s)>>)) >>
              ELSE << >>
    IN  w1 \o w2 \o w3

\* VesselDataMerger._vessel_to_dict
VesselToDict(vessel) ==
    [ attr \in {a \in DOMAIN vessel.attrs : ~IsNone(vessel.attrs[a])} |->
        IF HasValueAttr(vessel.attrs[attr])
        THEN Str(vessel.attrs[attr].s)
        ELSE vessel.attrs[attr] ]

\* the class _create_vessel_from_dict instantiates
YachtTypeNames == {TYPE_YACHT, TYPE_MOTOR_YACHT, TYPE_SAILING_YACHT, TYPE_SUPERYACHT}
VesselClassFor(data) ==
    LET vessel_type == IF "vessel_type" \in DOMAIN data
                       THEN data["vessel_type"] ELSE Str(TYPE_YACHT)
    IN  IF \E name \in YachtTypeNames : PyEq(vessel_type, Str(name))
        THEN "YachtSchema" ELSE "BaseVessel"

\* VesselDataMerger._create_vessel_from_dict
CreateVesselFromDict(data) ==
    LET vessel == NewVessel(VesselClassFor(data))
    IN  [ vessel EXCEPT !.attrs =
            [ f \in DOMAIN vessel.attrs |->
                IF f \in DOMAIN data THEN data[f] ELSE vessel.attrs[f] ] ]

(***************************************************************************)
(* vessel_merge.py: merge_vessel_data                                      *)
(***************************************************************************)
\* dict.items() of a caller's dict
Items(d) == SelectSeq(FieldOrder, LAMBDA f : f \in DOMAIN d)

MergeResult(success, merged_data, conflicts, auto_resolved, manual_required, warnings, error_message) ==
    [ success |-> success, merged_data |-> merged_data, conflicts |-> conflicts,
      auto_resolved |-> auto_resolved, manual_required |-> manual_required,
      warnings |-> warnings, error_message |-> error_message ]

\* the MergeResult of the "except Exception as e" blocks
MergeFailure(error_message) ==
    MergeResult(FALSE, EmptyDict, << >>, << >>, << >>, << >>, error_message)

\* the locals of merge_vessel_data before its first loop
MergeLocals0 ==
    [ conflicts |-> << >>, merged_data |-> EmptyDict,
      auto_resolved |-> << >>, manual_required |-> << >> ]

\* one iteration of "for field_name, new_value in new_data.items()"
MergeField(loc, existing_data, field_name, new_value, existing_source, new_source, auto_resolve) ==
    LET existing_value == Get(existing_data, field_name)
        conflict == CreateConflict(field_name, existing_value, new_value,
                                   existing_source, new_source)
        resolution == ResolveConflict(conflict)
    IN  IF IsNone(new_value) \/ IsEmptyStr(new_value) THEN loc
        ELSE IF IsNone(existing_value) \/ IsEmptyStr(existing_value) \/ IsZero(existing_value)
            THEN [loc EXCEPT !.merged_data = Put(@, field_name, new_value)]
        ELSE IF MergerValuesEqual(existing_value, new_value)
            THEN [loc EXCEPT !.merged_data = Put(@, field_name, existing_value)]
        ELSE IF auto_resolve /\ ~IsNone(resolution)
            THEN [loc EXCEPT !.conflicts = Append(@, conflict),
                             !.merged_data = Put(@, field_name, resolution),
                             !.auto_resolved = Append(@, field_name)]
        ELSE [loc EXCEPT !.conflicts = Append(@, conflict),
                         !.manual_required = Append(@, field_name),
                         !.merged_data = Put(@, field_name, existing_value)]

RECURSIVE MergeLoop(_, _, _, _, _, _, _)
MergeLoop(loc, existing_data, new_data, items, existing_source, new_source, auto_resolve) ==
    IF items = << >> THEN loc
    ELSE MergeLoop(MergeField(loc, existing_data, Head(items), new_data[Head(items)],
                              existing_source, new_source, auto_resolve),
                   existing_data, new_data, Tail(items), existing_source, new_source,
                   auto_resolve)

\* a merge that ends after its first loop
AddExistingSkipped(merged_data, existing_data) == merged_data

\* "Add any existing data that wasn't in new data"
AddExisting(merged_data, existing_data) ==
    [ f \in (DOMAIN merged_data) \cup (DOMAIN existing_data) |->
        IF f \in DOMAIN merged_data THEN merged_data[f] ELSE existing_data[f] ]

\* the candidate map after merge_vessel_data: the loop reads new_data.items()
\* and assigns to merged_data, a dict of its own
NewDataAfterMerge(new_data) == new_data

\* VesselDataMerger.merge_vessel_data
MergeVesselData(existing_vessel, new_data, new_source, existing_source, auto_resolve) ==
    LET existing_data == VesselToDict(existing_vessel)
        loc == MergeLoop(MergeLocals0, existing_data, new_data, Items(new_data),
                         existing_source, new_source, auto_resolve)
        merged_data == AddExisting(loc.merged_data, existing_data)
    IN  IF ValidateMergedDataError(merged_data) # ""
        THEN MergeFailure(ValidateMergedDataError(merged_data))
        ELSE MergeResult(TRUE, merged_data, loc.conflicts, loc.auto_resolved,
                         loc.manual_required, ValidateMergedData(merged_data), "")

(***************************************************************************)
(* vessel_merge.py: the smart merge strategies.  A call ends in            *)
(* [raised, value]: an exception leaves the helper, or value is returned.  *)
(***************************************************************************)
Returned(value) == [raised |-> FALSE, value |-> value]
Raised == [raised |-> TRUE, value |-> << >>]

\* the fields smart_merge_dimensions walks through
DimensionFields == {"length_overall", "beam", "draft", "gross_tonnage"}

\* abs(existing_val - new_val) / max(existing_val, new_val) divides by zero
DimensionRaises(existing_val, new_val) ==
    ~IsNone(existing_val) /\ ~IsNone(new_val) /\ Max(NumOf(existing_val), NumOf(new_val)) = 0

\* merged[field] of smart_merge_dimensions; tolerance in thousandths.  The
\* average is exact when the two values sum to an even number of thousandths.
MergeDimension(existing_val, new_val, tolerance) ==
    IF IsNone(existing_val) THEN new_val
    ELSE IF IsNone(new_val) THEN existing_val
    ELSE IF 1000 * Abs(NumOf(existing_val) - NumOf(new_val))
              <= tolerance * Max(NumOf(existing_val), NumOf(new_val))
        THEN Num((NumOf(existing_val) + NumOf(new_val)) \div 2)
    ELSE existing_val

\* VesselDataMerger.smart_merge_dimensions
SmartMergeDimensions(existing_dimensions, new_dimensions, tolerance) ==
    IF \E f \in DimensionFields :
          DimensionRaises(Get(existing_dimensions, f), Get(new_dimensions, f))
    THEN Raised
    ELSE Returned([ f \in DimensionFields |->
                      MergeDimension(Get(existing_dimensions, f), Get(new_dimensions, f),
                                     tolerance) ])

\* p in q, on strings
Contains(p, q) == \E i \in 0..(Len(q) - Len(p)) : SubSeq(q, i + 1, i + Len(p)) = p

\* VesselDataMerger.smart_merge_text_fields
SmartMergeTextFields(existing_text, new_text, field_name) ==
    LET longer == IF Len(new_text) > Len(existing_text) THEN new_text ELSE existing_text
    IN  IF existing_text = << >> THEN Returned(new_text)
        ELSE IF new_text = << >> THEN Returned(existing_text)
        ELSE IF field_name = "description"
            THEN IF /\ ~Contains(Lower(existing_text), Lower(new_text))
                    /\ ~Contains(Lower(new_text), Lower(existing_text))
                 THEN Returned(existing_text \o <<"\n", "\n", "[Additional info]: ">>
                               \o new_text)
                 ELSE Returned(longer)
        ELSE Returned(longer)

\* "Remove duplicates while preserving order"
RECURSIVE UniqueInOrder(_, _)
UniqueInOrder(combined, seen) ==
    IF combined = << >> THEN << >>
    ELSE IF Head(combined) \in seen THEN UniqueInOrder(Tail(combined), seen)
    ELSE << Head(combined) >> \o UniqueInOrder(Tail(combined), seen \cup {Head(combined)})

\* the elements of the model's lists, and the order in which a set of them
\* is iterated: it follows the hashes of the strings, which an interpreter
\* salts with the hash seed it drew when it started
ListElements == {"gym", "spa"}
HashSeeds == {1, 2}
HashOrder(hash_seed) == IF hash_seed = 1 THEN <<"gym", "spa">> ELSE <<"spa", "gym">>
\* list(set(combined))
ListOfSet(combined, hash_seed) ==
    SelectSeq(HashOrder(hash_seed), LAMBDA e : \E i \in 1..Len(combined) : combined[i] = e)

\* VesselDataMerger.smart_merge_lists, in an interpreter with this hash seed
SmartMergeLists(existing_list, new_list, field_name, hash_seed) ==
    LET combined == existing_list \o new_list
        unique_images == UniqueInOrder(combined, {})
    IN  IF existing_list = << >> THEN Returned(new_list)
        ELSE IF new_list = << >> THEN Returned(existing_list)
        ELSE IF field_name = "images"
            THEN Returned(SubSeq(unique_images, 1, Min(10, Len(unique_images))))
        ELSE Returned(ListOfSet(combined, hash_seed))

(***************************************************************************)
(* marinetraffic_api.py: the API client                                    *)
(***************************************************************************)
APIResponse(success, data, error) == [success |-> success, data |-> data, error |-> error]

\* a normaliser that hands the raw record through
RawMarineTrafficData(raw_data) == raw_data

\* MarineTrafficAPI._normalize_marinetraffic_data; str() and float() act on
\* values that are a str and a number already
NormalizeMarineTrafficData(raw_data) ==
    LET has(k) == k \in DOMAIN raw_data
        keys == {"data_source", "data_updated"}
                \cup (IF has("SHIPNAME") THEN {"vessel_name"} ELSE {})
                \cup (IF has("IMO") THEN {"imo_number"} ELSE {})
                \cup (IF has("MMSI") THEN {"mmsi_number"} ELSE {})
                \cup (IF has("LENGTH") /\ Truthy(raw_data["LENGTH"])
                      THEN {"length_overall"} ELSE {})
                \cup (IF has("WIDTH") /\ Truthy(raw_data["WIDTH"])
                      THEN {"beam"} ELSE {})
    IN  [ k \in keys |->
            CASE k = "vessel_name" -> raw_data["SHIPNAME"]
              [] k = "imo_number" -> raw_data["IMO"]
              [] k = "mmsi_number" -> raw_data["MMSI"]
              [] k = "length_overall" -> Num(NumOf(raw_data["LENGTH"]))
              [] k = "beam" -> Num(NumOf(raw_data["WIDTH"]))
              [] k = "data_source" -> Str(<<"marinetraffic">>)
              [] OTHER -> Str(<<"now">>) ]

\* MarineTrafficAPI.get_vessel_by_imo / get_vessel_by_mmsi on the outcome of
\* the HTTP request: "failed" (RequestException), or the JSON list received
GetVesselFromMarineTraffic(api_key_set, outcome, json) ==
    IF ~api_key_set
    THEN APIResponse(FALSE, EmptyDict, "MarineTraffic API key not configured")
    ELSE IF outcome = "failed" THEN APIResponse(FALSE, EmptyDict, "API request failed")
    ELSE IF Len(json) > 0
        THEN APIResponse(TRUE, NormalizeMarineTrafficData(json[1]), "")
    ELSE APIResponse(FALSE, EmptyDict, "Vessel not found")

(***************************************************************************)
(* vessel_enhancement.py: tables and helpers of VesselEnhancementService   *)
(***************************************************************************)
EnhancementSourceReliability ==
    [ marinetraffic |-> HIGH, boat_international |-> MEDIUM, wordpress |-> LOW,
      database |-> MEDIUM, user_input |-> LOW ]

\* marinetraffic_field_mapping, in the order of the dict
MarineTrafficFieldMapping ==
    << <<"SHIPNAME", "vessel_name">>, <<"IMO", "imo_number">>,
       <<"MMSI", "mmsi_number">>, <<"SHIP_TYPE", "vessel_type">>,
       <<"LENGTH", "length_overall">>, <<"BEAM", "beam">>,
       <<"GROSS_TONNAGE", "gross_tonnage">>, <<"SHIPBUILDER", "builder">>,
       <<"DESTINATION", "destination">> >>

\* VesselEnhancementService._map_marinetraffic_data: the pairs (field, value)
\* put into mapped_data, in order
MappedItems(mt_data) ==
    LET kept == SelectSeq(MarineTrafficFieldMapping,
                          LAMBDA m : m[1] \in DOMAIN mt_data /\ Truthy(mt_data[m[1]]))
    IN  [ i \in 1..Len(kept) |->
            << kept[i][2],
               IF kept[i][2] \in {"length_overall", "beam", "gross_tonnage"}
               THEN Num(NumOf(mt_data[kept[i][1]])) ELSE mt_data[kept[i][1]] >> ]

MapMarineTrafficData(mt_data) ==
    LET items == MappedItems(mt_data)
    IN  [ f \in {items[i][1] : i \in 1..Len(items)} |->
            items[CHOOSE i \in 1..Len(items) : items[i][1] = f][2] ]

\* VesselEnhancementService._values_equal
EnhancementValuesEqual(val1, val2) ==
    IF IsNone(val1) /\ IsNone(val2) THEN TRUE
    ELSE IF IsNone(val1) \/ IsNone(val2) THEN FALSE
    ELSE IF IsNumber(val1) /\ IsNumber(val2)
        THEN Abs(NumOf(val1) - NumOf(val2)) < 10
    ELSE IF IsStr(val1) /\ IsStr(val2)
        THEN Lower(Strip(val1.s)) = Lower(Strip(val2.s))
    ELSE IF HasValueAttr(val1) /\ HasValueAttr(val2) THEN val1.s = val2.s
    ELSE PyEq(val1, val2)

\* VesselEnhancementService._get_field_type
EnhancementGetFieldType(field_name) ==
    IF field_name \in {"length_overall", "beam", "draft", "gross_tonnage", "year_built",
                       "max_speed", "cruise_speed", "guest_capacity", "crew_capacity"}
    THEN "numeric"
    ELSE IF field_name \in {"description", "notes"} THEN "text"
    ELSE "string"

\* VesselEnhancementService._get_suggested_resolution
GetSuggestedResolution(field_name) ==
    IF field_name \in {"imo_number", "mmsi_number", "official_number"}
    THEN "prefer_existing"
    ELSE IF field_name \in {"length_overall", "beam", "draft", "gross_tonnage",
                            "year_built"}
    THEN "prefer_reliable"
    ELSE IF field_name \in {"description", "vessel_name"} THEN "prefer_complete"
    ELSE "manual"

\* abs(existing_value - new_value) / max(existing_value, new_value) divides by zero
ConfidenceRaises(existing_value, new_value) ==
    /\ IsNumber(existing_value) /\ IsNumber(new_value)
    /\ Max(NumOf(existing_value), NumOf(new_value)) = 0

\* diff_ratio < 0.1, the divisor not zero
DiffRatioBelowTenth(e, n) ==
    IF Max(e, n) > 0 THEN 10 * Abs(e - n) < Max(e, n)
    ELSE TRUE    \* a negative divisor: the ratio is zero or negative

\* VesselEnhancementService._calculate_conflict_confidence, in hundredths
CalculateConflictConfidence(existing_value, new_value, source) ==
    LET source_reliability == TableGet(EnhancementSourceReliability, source, LOW)
        base_confidence == source_reliability * 20
        boosted == IF /\ IsNumber(existing_value) /\ IsNumber(new_value)
                      /\ DiffRatioBelowTenth(NumOf(existing_value), NumOf(new_value))
                   THEN base_confidence + 20 ELSE base_confidence
    IN  Min(boosted, 100)

\* the fields of new_data that _identify_conflicts flags
ConflictingField(current_vessel, new_data, field) ==
    LET current_value == GetAttr(current_vessel, field)
    IN  /\ ~(IsNone(current_value) \/ IsEmptyStr(current_value) \/ IsZero(current_value))
        /\ ~EnhancementValuesEqual(current_value, new_data[field])

EnhancementConflict(current_vessel, new_data, source, field) ==
    [ field_name |-> field,
      existing_value |-> GetAttr(current_vessel, field),
      new_value |-> new_data[field],
      existing_source |-> "database",
      new_source |-> source,
      existing_reliability |-> TableGet(EnhancementSourceReliability, "database", MEDIUM),
      new_reliability |-> TableGet(EnhancementSourceReliability, source, LOW),
      field_type |-> EnhancementGetFieldType(field),
      suggested_resolution |-> GetSuggestedResolution(field),
      confidence |-> CalculateConflictConfidence(GetAttr(current_vessel, field),
                                                 new_data[field], source) ]

\* VesselEnhancementService._identify_conflicts: the list returned, or
\* raised when a confidence computation divides by zero
IdentifyConflicts(current_vessel, new_data, source) ==
    LET flagged == SelectSeq(Items(new_data),
                             LAMBDA f : ConflictingField(current_vessel, new_data, f))
    IN  IF \E i \in 1..Len(flagged) :
              ConfidenceRaises(GetAttr(current_vessel, flagged[i]), new_data[flagged[i]])
        THEN [raised |-> TRUE, conflicts |-> << >>]
        ELSE [raised |-> FALSE,
              conflicts |-> [ i \in 1..Len(flagged) |->
                                EnhancementConflict(current_vessel, new_data, source,
                                                    flagged[i]) ]]

EnhancementResult(success, fields_updated, new_data, conflicts, error_message) ==
    [ success |-> success, fields_updated |-> fields_updated, new_data |-> new_data,
      conflicts |-> conflicts, error_message |-> error_message ]
EnhancementFailure(error_message) ==
    EnhancementResult(FALSE, << >>, EmptyDict, << >>, error_message)

\* VesselEnhancementService.enhance_vessel_from_marinetraffic, given the
\* response of the API client and the vessel the service found (<< >>: none)
EnhanceVesselFromMarineTraffic(identifier_type, response, found) ==
    LET mapped_data == MapMarineTrafficData(response.data)
        mapped_items == MappedItems(response.data)
        identified == IdentifyConflicts(found[1], mapped_data, "marinetraffic")
    IN  IF identifier_type \notin {"imo", "mmsi"}
        THEN EnhancementFailure("Unsupported identifier type")
        ELSE IF ~response.success THEN EnhancementFailure(response.error)
        ELSE IF found = << >> THEN EnhancementFailure("Vessel not found")
        ELSE IF identified.raised THEN EnhancementFailure("float division by zero")
        ELSE EnhancementResult(TRUE,
                               [i \in 1..Len(mapped_items) |-> mapped_items[i][1]],
                               mapped_data, identified.conflicts, "")

\* boat_international_field_mapping, in the order of the dict
BoatInternationalFieldMapping ==
    << <<"vessel_name", "vessel_name">>, <<"length_overall", "length_overall">>,
       <<"beam", "beam">>, <<"builder", "builder">>, <<"max_speed", "max_speed">> >>

\* the digits at the front of q
RECURSIVE DigitRun(_)
DigitRun(q) ==
    IF q # << >> /\ Head(q) \in DigitChars THEN << Head(q) >> \o DigitRun(Tail(q))
    ELSE << >>
\* float() of a string of digits, in thousandths
RECURSIVE DigitsValue(_)
DigitsValue(q) ==
    IF q = << >> THEN 0
    ELSE DigitsValue(SubSeq(q, 1, Len(q) - 1)) * 10 + DigitVal(q[Len(q)]) * 1000
\* VesselEnhancementService._extract_numeric_value: re.search(r'(\d+\.?\d*)')
\* finds the first run of digits (the strings of the model have no decimal
\* point); None when there is none
RECURSIVE ExtractNumericValue(_)
ExtractNumericValue(q) ==
    IF q = << >> THEN None
    ELSE IF Head(q) \in DigitChars THEN Num(DigitsValue(DigitRun(q)))
    ELSE ExtractNumericValue(Tail(q))

\* the value _map_boat_international_data stores for a field; None: not stored
BoatInternationalValue(vessel_field, value) ==
    IF vessel_field \in {"length_overall", "beam", "draft", "max_speed", "cruise_speed",
                         "range_nm"}
    THEN IF IsStr(value) THEN ExtractNumericValue(value.s)
         ELSE IF IsNumber(value) THEN Num(NumOf(value))
         ELSE value
    ELSE value

\* VesselEnhancementService._map_boat_international_data
MapBoatInternationalData(bi_data) ==
    LET kept == { i \in 1..Len(BoatInternationalFieldMapping) :
                    LET m == BoatInternationalFieldMapping[i]
                    IN  /\ m[1] \in DOMAIN bi_data /\ Truthy(bi_data[m[1]])
                        /\ ~IsNone(BoatInternationalValue(m[2], bi_data[m[1]])) }
    IN  [ f \in {BoatInternationalFieldMapping[i][2] : i \in kept} |->
            BoatInternationalValue(f, bi_data[f]) ]

\* VesselEnhancementService.enhance_vessel_from_boat_international, given how
\* far the search and the scrape got, the scraped data and the vessel the
\* service found (<< >>: none)
EnhanceVesselFromBoatInternational(outcome, bi_data, found) ==
    LET mapped_data == MapBoatInternationalData(bi_data)
        identified == IdentifyConflicts(found[1], mapped_data, "boat_international")
    IN  IF outcome = "search_failed" THEN EnhancementFailure("search failed")
        ELSE IF outcome = "no_results" THEN EnhancementFailure("No matching yachts found")
        ELSE IF outcome = "no_url"
            THEN EnhancementFailure("No yacht URL found in search results")
        ELSE IF outcome = "scrape_failed" THEN EnhancementFailure("scrape failed")
        ELSE IF found = << >> THEN EnhancementFailure("Vessel not found")
        ELSE IF identified.raised THEN EnhancementFailure("float division by zero")
        ELSE EnhancementResult(TRUE, Items(mapped_data), mapped_data,
                               identified.conflicts, "")

\* "if selected_fields:" and the filter of apply_enhancement; selected_fields
\* is None (given FALSE) or a list, read only through "in"
DataToApply(new_data, selected_fields) ==
    IF selected_fields.given /\ selected_fields.fields # {}
    THEN [ f \in DOMAIN new_data \cap selected_fields.fields |-> new_data[f] ]
    ELSE new_data

\* VesselDatabase._vessel_to_db_format: the columns of the vessels table
\* that the model carries; the vessel type is stored by its value, the build
\* standards as the list json.loads gives back, or NULL for an empty list
VesselToDbFormat(vessel) ==
    [ f \in YachtSchemaAttrs |->
        IF f = "vessel_type"
        THEN IF Truthy(GetAttr(vessel, f))
             THEN IF HasValueAttr(GetAttr(vessel, f))
                  THEN Str(GetAttr(vessel, f).s) ELSE GetAttr(vessel, f)
             ELSE None
        ELSE IF f = "build_standards"
            THEN IF Truthy(GetAttr(vessel, f)) THEN GetAttr(vessel, f) ELSE None
        ELSE GetAttr(vessel, f) ]

\* the values of VesselType that the model uses
VesselTypeValues ==
    { TYPE_YACHT, TYPE_MOTOR_YACHT, TYPE_SAILING_YACHT, TYPE_SUPERYACHT, TYPE_MEGAYACHT,
      TYPE_CARGO_SHIP }
\* create_vessel_from_type: the class for a member of VesselType
ClassOfVesselType(vessel_type) ==
    IF vessel_type.s \in { TYPE_YACHT, TYPE_MOTOR_YACHT, TYPE_SAILING_YACHT,
                           TYPE_SUPERYACHT, TYPE_MEGAYACHT }
    THEN "YachtSchema" ELSE "BaseVessel"

\* VesselType(vessel_data.get('vessel_type', 'yacht')) raises ValueError; the
\* row has the key, with None for a NULL column
CreateVesselObjectRaises(vessel_data) ==
    LET vessel_type == IF "vessel_type" \in DOMAIN vessel_data
                       THEN vessel_data["vessel_type"] ELSE Str(TYPE_YACHT)
    IN  ~(IsStr(vessel_type) /\ vessel_type.s \in VesselTypeValues)

PopulateVesselFromDict(vessel, data) ==
    [ vessel EXCEPT !.attrs =
        [ f \in DOMAIN vessel.attrs |->
            IF f \in DOMAIN data /\ ~IsNone(data[f]) THEN data[f] ELSE vessel.attrs[f] ] ]

\* VesselService._create_vessel_object, when VesselType(...) does not raise
CreateVesselObject(vessel_data) ==
    LET vessel_type == IF "vessel_type" \in DOMAIN vessel_data
                       THEN vessel_data["vessel_type"] ELSE Str(TYPE_YACHT)
    IN  PopulateVesselFromDict(NewVessel(ClassOfVesselType(EnumMember(vessel_type.s))),
                               vessel_data)

(***************************************************************************)
(* vessel_enhancement.py: enhancement opportunity detection                *)
(***************************************************************************)
\* EnhancementOpportunity; confidence in hundredths (the description, an
\* f-string of the identifier, is left out)
EnhancementOpportunity(source, identifier_type, identifier_value, confidence, estimated_fields) ==
    [ source |-> source, identifier_type |-> identifier_type,
      identifier_value |-> identifier_value, confidence |-> confidence,
      estimated_fields |-> estimated_fields ]

\* a detector that lists the MMSI opportunity before the IMO opportunity
GetMarineTrafficOpportunitiesMmsiFirst(vessel) ==
    (IF Truthy(GetAttr(vessel, "mmsi_number"))
     THEN << EnhancementOpportunity("marinetraffic", "mmsi",
                                    GetAttr(vessel, "mmsi_number"), 90, 7) >>
     ELSE << >>)
    \o (IF Truthy(GetAttr(vessel, "imo_number"))
        THEN << EnhancementOpportunity("marinetraffic", "imo",
                                       GetAttr(vessel, "imo_number"), 95, 8) >>
        ELSE << >>)

\* VesselEnhancementService._get_marinetraffic_opportunities
GetMarineTrafficOpportunities(vessel) ==
    (IF Truthy(GetAttr(vessel, "imo_number"))
     THEN << EnhancementOpportunity("marinetraffic", "imo",
                                    GetAttr(vessel, "imo_number"), 95, 8) >>
     ELSE << >>)
    \o (IF Truthy(GetAttr(vessel, "mmsi_number"))
        THEN << EnhancementOpportunity("marinetraffic", "mmsi",
                                       GetAttr(vessel, "mmsi_number"), 90, 7) >>
        ELSE << >>)

\* vessel_type.value raises AttributeError: the vessel type is not an Enum member
BoatInternationalRaises(vessel) ==
    Truthy(GetAttr(vessel, "vessel_type")) /\ ~HasValueAttr(GetAttr(vessel, "vessel_type"))

\* VesselEnhancementService._get_boat_international_opportunities, when it
\* does not raise
GetBoatInternationalOpportunities(vessel) ==
    LET vessel_type == GetAttr(vessel, "vessel_type")
    IN  IF /\ Truthy(vessel_type)
           /\ vessel_type.s \in {TYPE_YACHT, TYPE_MOTOR_YACHT, TYPE_SAILING_YACHT,
                                  TYPE_SUPERYACHT}
           /\ Truthy(GetAttr(vessel, "vessel_name"))
        THEN << EnhancementOpportunity("boat_international", "name",
                                       GetAttr(vessel, "vessel_name"), 70, 6) >>
        ELSE << >>

\* list.sort(key=lambda x: x.confidence, reverse=True): a stable sort
RECURSIVE InsertByConfidence(_, _)
InsertByConfidence(sorted, x) ==
    IF sorted = << >> THEN << x >>
    ELSE IF Head(sorted).confidence >= x.confidence
        THEN << Head(sorted) >> \o InsertByConfidence(Tail(sorted), x)
    ELSE << x >> \o sorted
RECURSIVE SortByConfidence(_)
SortByConfidence(opportunities) ==
    IF opportunities = << >> THEN << >>
    ELSE InsertByConfidence(SortByConfidence(SubSeq(opportunities, 1, Len(opportunities) - 1)),
                            opportunities[Len(opportunities)])

\* an except block that throws away what the try block had collected
NothingOnError(opportunities) == << >>

\* "except Exception as e: logger.error(...)", then "return opportunities"
ReturnedOnError(opportunities) == opportunities

\* VesselEnhancementService.get_enhancement_opportunities, given the vessel
\* the service found (<< >>: none): the list returned, and whether the
\* except block ran
GetEnhancementOpportunities(found, api_key_set) ==
    LET marinetraffic == IF api_key_set THEN GetMarineTrafficOpportunities(found[1])
                         ELSE << >>
    IN  IF found = << >> THEN [raised |-> FALSE, opportunities |-> << >>]
        ELSE IF BoatInternationalRaises(found[1])
            THEN [raised |-> TRUE, opportunities |-> ReturnedOnError(marinetraffic)]
        ELSE [raised |-> FALSE,
              opportunities |->
                  SortByConfidence(marinetraffic
                                   \o GetBoatInternationalOpportunities(found[1]))]

(***************************************************************************)
(* vessel_enhancement.py: perform_batch_enhancement, for one vessel id.    *)
(* answers[identifier_type] is what the outside world answers to a request *)
(* on that identifier: for imo and mmsi the outcome of the HTTP request    *)
(* and its JSON list, for name how far the scraper got and its data.       *)
(***************************************************************************)
\* the EnhancementResult of the enhance_vessel_from_* call made for an opportunity
AttemptOpportunity(opportunity, api_key_set, answers, found) ==
    IF opportunity.source = "marinetraffic"
    THEN EnhanceVesselFromMarineTraffic(
             opportunity.identifier_type,
             GetVesselFromMarineTraffic(api_key_set,
                                        answers[opportunity.identifier_type].outcome,
                                        answers[opportunity.identifier_type].data),
             found)
    ELSE EnhanceVesselFromBoatInternational(answers["name"].outcome,
                                            answers["name"].data, found)

\* "for opportunity in opportunities": the opportunities attempted and the
\* entry of the vessel in results (<< >>: no entry)
RECURSIVE BatchLoop(_, _, _, _, _, _)
BatchLoop(opportunities, sources, api_key_set, answers, found, attempted) ==
    IF opportunities = << >> THEN [attempted |-> attempted, results |-> << >>]
    ELSE IF Head(opportunities).source \in sources
        THEN [attempted |-> Append(attempted, Head(opportunities)),
              results |-> << AttemptOpportunity(Head(opportunities), api_key_set,
                                                answers, found) >>]
    ELSE BatchLoop(Tail(opportunities), sources, api_key_set, answers, found, attempted)

\* VesselEnhancementService.perform_batch_enhancement([vessel_id], sources, user_id)
PerformBatchEnhancement(vessel_id, sources, api_key_set, answers, found) ==
    BatchLoop(GetEnhancementOpportunities(found, api_key_set).opportunities,
              sources, api_key_set, answers, found, << >>)

(***************************************************************************)
(* The inputs: vessel records, candidate maps and source names             *)
(***************************************************************************)
\* the most keys a candidate map carries
MaxNewFields == 2
\* the most (candidate map, source) pairs a merge_multiple_sources call is given
MaxSources == 2

IMO_A == <<"9", "0", "7", "4", "7", "2", "9">>
IMO_A_PADDED == <<" ", "9", "0", "7", "4", "7", "2", "9">>
IMO_B == <<"1", "2", "3", "4", "5", "6", "7">>
MMSI_A == <<"2", "3", "5", "0", "0", "0", "0", "0", "1">>
MMSI_B == <<"2", "3", "5", "0", "0", "0", "0", "0", "2">>
SERENITY == <<"S", "e", "r", "e", "n", "i", "t", "y">>
AZZAM == <<"A", "z", "z", "a", "m">>
FEADSHIP == <<"F", "e", "a", "d", "s", "h", "i", "p">>

\* values a vessel attribute holds before the merge
ExistingValues(f) ==
    CASE f = "vessel_name" -> {Str(<<"A", "b">>)}
      [] f = "imo_number" -> {Str(IMO_A)}
      [] f = "mmsi_number" -> {Str(MMSI_A)}
      [] f = "official_number" -> {Str(<<"7", "1">>)}
      [] f = "class_notation" -> {Str(<<"a">>)}
      [] f = "length_overall" -> {Num(45000), Num(0)}
      [] f = "beam" -> {Num(8000)}
      [] f = "gross_tonnage" -> {Num(100000)}
      [] f = "builder" -> {Str(<<"a", "b">>), Str(<< >>), List(<<"a">>)}
      [] f = "max_speed" -> {Num(20000)}
      [] f = "superyacht_status" -> {Bool(TRUE)}
      [] OTHER -> {}

\* values a source supplies
NewValues(f) ==
    CASE f = "vessel_name" -> {Str(<<"a", "b", " ">>), Str(<<"B">>)}
      [] f = "imo_number" -> {Str(IMO_A_PADDED), Str(IMO_B), Str(<< >>)}
      [] f = "mmsi_number" -> {Str(MMSI_A), Str(MMSI_B)}
      [] f = "official_number" -> {Str(<<"7", "2">>)}
      [] f = "vessel_type" -> {Str(TYPE_YACHT), Str(TYPE_MEGAYACHT)}
      [] f = "class_notation" -> {Str(<<"b">>)}
      [] f = "length_overall" -> {Num(45300), Num(45005), Num(90000), Num(5)}
      [] f = "beam" -> {Num(50000)}
      [] f = "net_tonnage" -> {Num(500000), Num(60000)}
      [] f = "build_standards" -> {List(<<"solas">>)}
      [] f = "builder" -> {Str(<<"a", "b", "b">>), Str(<<"B">>), Str(FEADSHIP), None,
                           Str(<<"B", " ", " ">>), List(<<"a", "b">>), List(<<"b">>)}
      [] f = "max_speed" -> {Num(25000), Num(80000), Str(<<"8", "0">>)}
      [] f = "superyacht_status" -> {Bool(TRUE), Bool(FALSE)}
      [] f = "destination" -> {Str(<<"a">>), Str(<<"b">>)}
      [] OTHER -> {}

AllExistingValues == UNION {ExistingValues(f) : f \in Fields}
AllNewValues == UNION {NewValues(f) : f \in Fields}

\* a vessel as create_vessel_from_type and the class constructors build it:
\* the class follows the vessel type, or no type is set
VesselKinds ==
    { <<"BaseVessel", None>>, <<"YachtSchema", None>>,
      <<"BaseVessel", EnumMember(TYPE_CARGO_SHIP)>>,
      <<"YachtSchema", EnumMember(TYPE_YACHT)>>,
      <<"YachtSchema", EnumMember(TYPE_MEGAYACHT)>> }

KindVessel(kind) == SetAttr(NewVessel(kind[1]), "vessel_type", kind[2])

\* the record {vessel_name: "Serenity", length_overall: 45.0, imo_number: "9074729"}
SerenityVessel ==
    SetAttr(SetAttr(SetAttr(NewVessel("BaseVessel"), "vessel_name", Str(SERENITY)),
                    "length_overall", Num(45000)),
            "imo_number", Str(IMO_A))

\* every kind, with at most one further declared attribute set, and the
\* Serenity record
Vessels ==
    {KindVessel(kind) : kind \in VesselKinds}
    \cup {SerenityVessel}
    \cup UNION { UNION { {SetAttr(KindVessel(kind), f, v) : v \in ExistingValues(f)}
                         : f \in SchemaAttrs(kind[1]) \ {"vessel_type"} }
                 : kind \in VesselKinds }

\* candidate maps with at most k keys
MapsOver(D) == {m \in [D -> AllNewValues] : \A f \in D : m[f] \in NewValues(f)}
CandidateMaps(k) ==
    UNION {MapsOver(D) : D \in {X \in SUBSET Fields : Cardinality(X) <= k}}
\* what one source of a merge_multiple_sources call supplies: one of these
\* fields, alone or together with the vessel type
SourceFields ==
    { "imo_number", "mmsi_number", "official_number", "vessel_type",
      "class_notation", "max_speed", "destination" }
\* the vessels whose other attributes are as constructed: a field no source
\* supplies is only copied from pass to pass
SourceVessels ==
    { v \in Vessels :
        \A f \in DOMAIN v.attrs \ SourceFields : v.attrs[f] = NewVessel(v.cls).attrs[f] }
SourceMaps ==
    UNION { MapsOver({f}) \cup MapsOver({f, "vessel_type"}) : f \in SourceFields }

\* one source of each level the merger table uses, and an unlisted source
NewSources == {"imo_registry", "marinetraffic", "boat_international", "wordpress", "ais_hub"}
ExistingSources == {"database", "imo_registry"}
\* sources of a merge_multiple_sources call: one more reliable than the
\* database, one less
ListedSources == {"marinetraffic", "wordpress"}

(***************************************************************************)
(* vessel_merge.py: merge_multiple_sources, one loop iteration at a time   *)
(***************************************************************************)
\* the locals of merge_multiple_sources after "current_data = ..." and the
\* four empty lists
MergeManyLocals0(vessel) ==
    [ current_data |-> VesselToDict(vessel), all_conflicts |-> << >>,
      all_auto_resolved |-> << >>, all_manual_required |-> << >>,
      all_warnings |-> << >> ]

\* a pass that populates the caller's vessel object instead of a new one
PopulateExistingVessel(existing_vessel, temp_vessel) == temp_vessel

\* the caller's vessel after a pass: _create_vessel_from_dict calls setattr on
\* the YachtSchema() or BaseVessel() it has just created
ExistingVesselAfterPass(existing_vessel, temp_vessel) == existing_vessel

\* a failure return that hands over what the earlier passes accumulated
MergeManyFailedKeeping(loc, merge_result) ==
    MergeResult(FALSE, loc.current_data, loc.all_conflicts, loc.all_auto_resolved,
                loc.all_manual_required, loc.all_warnings, merge_result.error_message)

\* "if not merge_result.success: return merge_result"
MergeManyFailed(loc, merge_result) == merge_result

\* a loop body that puts what the pass recorded in front of the earlier entries
MergeManyAccumulateInFront(loc, merge_result) ==
    [ current_data |-> merge_result.merged_data,
      all_conflicts |-> merge_result.conflicts \o loc.all_conflicts,
      all_auto_resolved |-> merge_result.auto_resolved \o loc.all_auto_resolved,
      all_manual_required |-> merge_result.manual_required \o loc.all_manual_required,
      all_warnings |-> merge_result.warnings \o loc.all_warnings ]

\* the body of "for new_data, source_name in data_sources" after a successful
\* merge_vessel_data call
MergeManyAccumulate(loc, merge_result) ==
    [ current_data |-> merge_result.merged_data,
      all_conflicts |-> loc.all_conflicts \o merge_result.conflicts,
      all_auto_resolved |-> loc.all_auto_resolved \o merge_result.auto_resolved,
      all_manual_required |-> loc.all_manual_required \o merge_result.manual_required,
      all_warnings |-> loc.all_warnings \o merge_result.warnings ]

(***************************************************************************)
(* State                                                                   *)
(***************************************************************************)
VARIABLES
    existing_vessel,    \* the vessel object handed to the merger
    pc,                 \* "idle", the running operation, or the one that returned
    call,               \* the arguments of the latest merge_vessel_data call
    result,             \* the MergeResult the operation returned
    many,               \* the locals of merge_multiple_sources
    temp_vessel,        \* the temporary vessel of the latest loop iteration
    merge_result,       \* the MergeResult of the latest loop iteration
    passes,             \* loop iterations completed
    identified,         \* what _identify_conflicts returned
    api_response,       \* the APIResponse of the MarineTraffic client
    enhancement,        \* the EnhancementResult of the enhancement service
    store_update,       \* the call of vessel_service.update_vessel, and the
                        \* selected_fields of the apply_enhancement call around it
    new_data_after,     \* the candidate map of the latest call, as the call left it
    smart,              \* the latest smart-merge helper call and the one before it
    compared,           \* the latest call of a comparator and what it returned
    detector,           \* the latest call of get_enhancement_opportunities
    batch               \* the latest call of perform_batch_enhancement

mergeManyVars == << many, temp_vessel, merge_result, passes >>
enhancementVars == << api_response, enhancement, store_update >>
vars == << existing_vessel, pc, call, result, many, temp_vessel, merge_result, passes,
           identified, api_response, enhancement, store_update, new_data_after, smart, compared, detector, batch >>
helperVars == << smart, compared, detector, batch >>

NoCall == [new_data |-> EmptyDict, new_source |-> "", existing_source |-> "",
           auto_resolve |-> FALSE]
NoResult == MergeResult(FALSE, EmptyDict, << >>, << >>, << >>, << >>, "")
NoUpdate == [called |-> FALSE, vessel_id |-> "", updated_data |-> EmptyDict,
             selected_fields |-> [given |-> FALSE, fields |-> {}]]
NoSmartCall == [op |-> "", args |-> << >>, outcome |-> << >>]
NoComparison == [by |-> "", val1 |-> None, val2 |-> None, equal |-> FALSE]
NoBatch == [vessel_id |-> "", sources |-> {}, api_key_set |-> FALSE, answers |-> << >>,
            attempted |-> << >>, results |-> << >>]
NoDetection == [vessel_id |-> "", api_key_set |-> FALSE, vessel |-> << >>,
                raised |-> FALSE, opportunities |-> << >>]

InitFrom(vessels) ==
    /\ existing_vessel \in vessels
    /\ pc = "idle"
    /\ call = NoCall
    /\ result = NoResult
    /\ many = MergeManyLocals0(NewVessel("BaseVessel"))
    /\ temp_vessel = NewVessel("BaseVessel")
    /\ merge_result = NoResult
    /\ passes = 0
    /\ identified = [raised |-> FALSE, conflicts |-> << >>]
    /\ api_response = APIResponse(FALSE, EmptyDict, "")
    /\ enhancement = EnhancementFailure("")
    /\ store_update = NoUpdate
    /\ new_data_after = EmptyDict
    /\ smart = [latest |-> NoSmartCall, before |-> NoSmartCall]
    /\ compared = NoComparison
    /\ detector = NoDetection
    /\ batch = NoBatch

Init == InitFrom(Vessels)

\* merger.merge_vessel_data(existing_vessel, new_data, new_source, existing_source, auto_resolve)
MergeOne ==
    /\ pc = "idle"
    /\ \E new_data \in CandidateMaps(MaxNewFields), new_source \in NewSources,
          existing_source \in ExistingSources, auto_resolve \in BOOLEAN :
            /\ call' = [new_data |-> new_data, new_source |-> new_source,
                        existing_source |-> existing_source,
                        auto_resolve |-> auto_resolve]
            /\ result' = MergeVesselData(existing_vessel, new_data, new_source,
                                         existing_source, auto_resolve)
            /\ new_data_after' = NewDataAfterMerge(new_data)
    /\ pc' = "merge_one"
    /\ UNCHANGED << existing_vessel, mergeManyVars, identified, enhancementVars, helperVars >>

\* enhancement_service._identify_conflicts(current_vessel, new_data, source)
IdentifyConflictsCall ==
    /\ pc = "idle"
    /\ \E new_data \in CandidateMaps(MaxNewFields), source \in NewSources :
            /\ call' = [new_data |-> new_data, new_source |-> source,
                        existing_source |-> "database", auto_resolve |-> FALSE]
            /\ identified' = IdentifyConflicts(existing_vessel, new_data, source)
    /\ pc' = "identify_conflicts"
    /\ UNCHANGED << existing_vessel, result, mergeManyVars, enhancementVars, new_data_after, helperVars >>

Next == MergeOne \/ IdentifyConflictsCall

Spec == Init /\ [][Next]_vars

\* merger.merge_multiple_sources(existing_vessel, data_sources, auto_resolve):
\* entry, up to the loop
MergeManyStart ==
    /\ pc = "idle"
    /\ \E auto_resolve \in BOOLEAN : call' = [NoCall EXCEPT !.auto_resolve = auto_resolve]
    /\ many' = MergeManyLocals0(existing_vessel)
    /\ passes' = 0
    /\ pc' = "merge_many"
    /\ UNCHANGED << existing_vessel, result, temp_vessel, merge_result, identified,
                    enhancementVars, new_data_after, helperVars >>

\* one iteration of the loop, on the next (new_data, source_name) of data_sources;
\* existing_source is the default of merge_vessel_data
MergeManyPass ==
    /\ pc = "merge_many"
    /\ passes < MaxSources
    /\ \E new_data \in SourceMaps, source_name \in ListedSources :
         LET temp == CreateVesselFromDict(many.current_data)
             res == MergeVesselData(temp, new_data, source_name, "database",
                                    call.auto_resolve)
         IN  /\ temp_vessel' = temp
             /\ existing_vessel' = ExistingVesselAfterPass(existing_vessel, temp)
             /\ merge_result' = res
             /\ new_data_after' = NewDataAfterMerge(new_data)
             /\ call' = [new_data |-> new_data, new_source |-> source_name,
                         existing_source |-> "database",
                         auto_resolve |-> call.auto_resolve]
             /\ IF ~res.success
                THEN /\ result' = MergeManyFailed(many, res)
                     /\ pc' = "merge_many_done"
                     /\ UNCHANGED << many, passes >>
                ELSE /\ many' = MergeManyAccumulate(many, res)
                     /\ passes' = passes + 1
                     /\ UNCHANGED << pc, result >>
    /\ UNCHANGED << identified, enhancementVars, helperVars >>

\* the loop is exhausted: return the accumulated MergeResult
MergeManyReturn ==
    /\ pc = "merge_many"
    /\ result' = MergeResult(TRUE, many.current_data, many.all_conflicts,
                             many.all_auto_resolved, many.all_manual_required,
                             many.all_warnings, "")
    /\ pc' = "merge_many_done"
    /\ UNCHANGED << existing_vessel, call, mergeManyVars, identified, enhancementVars,
                    new_data_after, helperVars >>

NextMany == MergeManyStart \/ MergeManyPass \/ MergeManyReturn

InitMany == InitFrom(SourceVessels)

SpecMany == InitMany /\ [][NextMany]_vars

(***************************************************************************)
(* The enhancement path: enhance_vessel_from_marinetraffic, then           *)
(* apply_enhancement.  The store holds existing_vessel under STORED_ID.    *)
(***************************************************************************)
STORED_ID == "vessel-1"
VesselIds == {STORED_ID, "vessel-2"}
\* VesselDatabase.get_vessel_by_id: the row of the stored vessel, << >> is None
DbGetVesselById(vessel_id) ==
    IF vessel_id = STORED_ID THEN << VesselToDbFormat(existing_vessel) >> ELSE << >>
\* vessel_service.get_vessel_by_id: << >> is None, also returned when
\* _create_vessel_object raises
GetVesselById(vessel_id) ==
    LET vessel_data == DbGetVesselById(vessel_id)
    IN  IF vessel_data = << >> THEN << >>
        ELSE IF CreateVesselObjectRaises(vessel_data[1]) THEN << >>
        ELSE << CreateVesselObject(vessel_data[1]) >>

\* the records MarineTraffic answers with
RawValues(k) ==
    CASE k = "SHIPNAME" -> {Str(<<"B">>)}
      [] k = "IMO" -> {Str(IMO_A), Str(IMO_B)}
      [] k = "MMSI" -> {Str(MMSI_B)}
      [] k = "LENGTH" -> {Num(45300)}
      [] OTHER -> {}
RawKeys == {"SHIPNAME", "IMO", "MMSI", "LENGTH"}
RawRecords ==
    UNION { {m \in [D -> UNION {RawValues(k) : k \in RawKeys}] :
               \A k \in D : m[k] \in RawValues(k)} : D \in SUBSET RawKeys }
\* response.json(): an empty list or a list of one record
JsonLists == {<< >>} \cup {<< r >> : r \in RawRecords}

SelectedFields ==
    {[given |-> FALSE, fields |-> {}]}
    \cup {[given |-> TRUE, fields |-> F] : F \in SUBSET {"imo_number", "length_overall"}}
    \cup {[given |-> TRUE, fields |-> {"builder", "destination"}]}

\* enhancement_service.enhance_vessel_from_marinetraffic(vessel_id, identifier_type, identifier_value)
EnhanceFromMarineTraffic ==
    /\ pc = "idle"
    /\ \E vessel_id \in VesselIds, identifier_type \in {"imo", "mmsi", "name"},
          api_key_set \in BOOLEAN, outcome \in {"failed", "received"},
          json \in JsonLists :
            LET response == GetVesselFromMarineTraffic(api_key_set, outcome, json)
            IN  /\ api_response' = IF identifier_type \in {"imo", "mmsi"}
                                   THEN response ELSE api_response
                /\ enhancement' = EnhanceVesselFromMarineTraffic(
                                      identifier_type, response, GetVesselById(vessel_id))
    /\ pc' = "enhanced"
    /\ UNCHANGED << existing_vessel, call, result, mergeManyVars, identified, store_update,
                    new_data_after, helperVars >>

\* what the directory scraper returns for a yacht page
BiValues(k) ==
    CASE k = "vessel_name" -> {Str(<<"B">>)}
      [] k = "length_overall" -> {Num(45300)}
      [] k = "builder" -> {Str(FEADSHIP)}
      [] k = "max_speed" -> {Str(<<"8", "0">>), Str(<<"a", "b">>)}
      [] OTHER -> {}
BiKeys == {"vessel_name", "length_overall", "builder", "max_speed"}
BiRecords ==
    UNION { {m \in [D -> UNION {BiValues(k) : k \in BiKeys}] :
               \A k \in D : m[k] \in BiValues(k)} : D \in SUBSET BiKeys }
BiOutcomes == {"search_failed", "no_results", "no_url", "scrape_failed", "scraped"}

\* enhancement_service.enhance_vessel_from_boat_international(vessel_id, yacht_name)
EnhanceFromBoatInternational ==
    /\ pc = "idle"
    /\ \E vessel_id \in VesselIds, outcome \in BiOutcomes, bi_data \in BiRecords :
         enhancement' = EnhanceVesselFromBoatInternational(outcome, bi_data,
                                                           GetVesselById(vessel_id))
    /\ pc' = "enhanced"
    /\ UNCHANGED << existing_vessel, call, result, mergeManyVars, identified, api_response,
                    store_update, new_data_after, helperVars >>

\* enhancement_service.apply_enhancement(vessel_id, enhancement_result, user_id, selected_fields);
\* accepted: update_vessel's permission check, validation and database write pass
ApplyEnhancement ==
    /\ pc = "enhanced"
    /\ \E vessel_id \in VesselIds, selected_fields \in SelectedFields, accepted \in BOOLEAN :
            IF ~enhancement.success
            THEN UNCHANGED << existing_vessel, store_update >>
            ELSE LET data_to_apply == DataToApply(enhancement.new_data, selected_fields)
                 IN  /\ store_update' = [called |-> TRUE, vessel_id |-> vessel_id,
                                         updated_data |-> data_to_apply,
                                         selected_fields |-> selected_fields]
                     /\ existing_vessel' =
                            IF GetVesselById(vessel_id) # << >> /\ accepted
                            THEN PopulateVesselFromDict(existing_vessel, data_to_apply)
                            ELSE existing_vessel
    /\ pc' = "applied"
    /\ UNCHANGED << call, result, mergeManyVars, identified, api_response, enhancement,
                    new_data_after, helperVars >>

NextEnhance == EnhanceFromMarineTraffic \/ EnhanceFromBoatInternational \/ ApplyEnhancement

SpecEnhance == Init /\ [][NextEnhance]_vars

(***************************************************************************)
(* The smart merge helpers, called one after another; each call may run in *)
(* an interpreter of its own.                                              *)
(***************************************************************************)
MaxListLen == 2
Lists == UNION {[1..k -> ListElements] : k \in 0..MaxListLen}
ListFieldNames == {"images", "amenities"}
Texts == {<< >>, <<"a", "b">>, <<"A", "b">>, <<"a", "b", "b">>, <<"B">>}
TextFieldNames == {"description", "builder"}
\* dimension dicts over two of the fields
DimensionValues == {Num(45000), Num(45300), Num(0)}
DimensionDicts ==
    UNION { [D -> DimensionValues] : D \in SUBSET {"length_overall", "beam"} }
\* the default tolerance, 0.1
Tolerances == {100}

\* two calls are compared: a behaviour makes a call and one more
SmartCallsLeft == smart.before = NoSmartCall

SmartCalled(op, args, outcome) ==
    smart' = [latest |-> [op |-> op, args |-> args, outcome |-> outcome],
              before |-> smart.latest]

SmartVarsUnchanged ==
    UNCHANGED << existing_vessel, pc, call, result, mergeManyVars, identified,
                 enhancementVars, new_data_after, compared, detector, batch >>

\* merger.smart_merge_dimensions(existing_dimensions, new_dimensions, tolerance)
SmartMergeDimensionsCall ==
    /\ pc = "idle" /\ SmartCallsLeft
    /\ \E existing_dimensions \in DimensionDicts, new_dimensions \in DimensionDicts,
          tolerance \in Tolerances :
            SmartCalled("smart_merge_dimensions",
                        <<existing_dimensions, new_dimensions, tolerance>>,
                        SmartMergeDimensions(existing_dimensions, new_dimensions, tolerance))
    /\ SmartVarsUnchanged

\* merger.smart_merge_text_fields(existing_text, new_text, field_name)
SmartMergeTextFieldsCall ==
    /\ pc = "idle" /\ SmartCallsLeft
    /\ \E existing_text \in Texts, new_text \in Texts, field_name \in TextFieldNames :
            SmartCalled("smart_merge_text_fields", <<existing_text, new_text, field_name>>,
                        SmartMergeTextFields(existing_text, new_text, field_name))
    /\ SmartVarsUnchanged

\* merger.smart_merge_lists(existing_list, new_list, field_name)
SmartMergeListsCall ==
    /\ pc = "idle" /\ SmartCallsLeft
    /\ \E existing_list \in Lists, new_list \in Lists, field_name \in ListFieldNames,
          hash_seed \in HashSeeds :
            SmartCalled("smart_merge_lists", <<existing_list, new_list, field_name>>,
                        SmartMergeLists(existing_list, new_list, field_name, hash_seed))
    /\ SmartVarsUnchanged

NextSmart == SmartMergeDimensionsCall \/ SmartMergeTextFieldsCall \/ SmartMergeListsCall

InitSmart == InitFrom({SerenityVessel})

SpecSmart == InitSmart /\ [][NextSmart]_vars

(***************************************************************************)
(* The opportunity detector, on a stored vessel                            *)
(***************************************************************************)
\* the vessels of the store: a type, a name, an IMO number and an
\* MMSI, each set, empty or missing
StoredTypes ==
    { EnumMember(TYPE_YACHT), EnumMember(TYPE_MOTOR_YACHT),
      EnumMember(TYPE_MEGAYACHT), EnumMember(TYPE_CARGO_SHIP) }
StoredVessels ==
    { SetAttr(SetAttr(SetAttr(SetAttr(
          NewVessel(ClassOfVesselType(vessel_type)),
          "vessel_type", vessel_type), "vessel_name", vessel_name),
          "imo_number", imo_number), "mmsi_number", mmsi_number) :
        vessel_type \in StoredTypes,
        vessel_name \in {None, Str(<< >>), Str(SERENITY), Str(AZZAM)},
        imo_number \in {None, Str(IMO_A)},
        mmsi_number \in {None, Str(<< >>), Str(MMSI_A)} }

\* enhancement_service.get_enhancement_opportunities(vessel_id)
GetEnhancementOpportunitiesCall ==
    /\ pc = "idle"
    /\ \E vessel_id \in VesselIds, api_key_set \in BOOLEAN :
         LET found == GetVesselById(vessel_id)
             returned == GetEnhancementOpportunities(found, api_key_set)
         IN  detector' = [vessel_id |-> vessel_id, api_key_set |-> api_key_set,
                          vessel |-> found, raised |-> returned.raised,
                          opportunities |-> returned.opportunities]
    /\ pc' = "opportunities"
    /\ UNCHANGED << existing_vessel, call, result, mergeManyVars, identified,
                    enhancementVars, new_data_after, smart, compared, batch >>

NextDetect == GetEnhancementOpportunitiesCall

InitDetect == InitFrom(StoredVessels)

SpecDetect == InitDetect /\ [][NextDetect]_vars

(***************************************************************************)
(* Batch enhancement of a stored vessel                                    *)
(***************************************************************************)
EnhancementSources == {"marinetraffic", "boat_international"}
\* the JSON lists MarineTraffic answers a batch request with
BatchRecord == [IMO |-> Str(IMO_A)]
TrackingAnswers ==
    { [outcome |-> "failed", data |-> << >>], [outcome |-> "received", data |-> << >>],
      [outcome |-> "received", data |-> << BatchRecord >>] }
DirectoryAnswers ==
    { [outcome |-> "no_results", data |-> EmptyDict],
      [outcome |-> "scraped", data |-> [builder |-> Str(FEADSHIP)]] }
BatchAnswers ==
    { [imo |-> a, mmsi |-> b, name |-> c] :
        a \in TrackingAnswers, b \in TrackingAnswers, c \in DirectoryAnswers }

\* enhancement_service.perform_batch_enhancement([vessel_id], sources, user_id)
PerformBatchEnhancementCall ==
    /\ pc = "idle"
    /\ \E vessel_id \in VesselIds, sources \in SUBSET EnhancementSources,
          api_key_set \in BOOLEAN, answers \in BatchAnswers :
         LET found == GetVesselById(vessel_id)
             done == PerformBatchEnhancement(vessel_id, sources, api_key_set, answers, found)
         IN  batch' = [vessel_id |-> vessel_id, sources |-> sources,
                       api_key_set |-> api_key_set, answers |-> answers,
                       attempted |-> done.attempted, results |-> done.results]
    /\ pc' = "batch"
    /\ UNCHANGED << existing_vessel, call, result, mergeManyVars, identified,
                    enhancementVars, new_data_after, smart, compared, detector >>

NextBatch == PerformBatchEnhancementCall

SpecBatch == InitDetect /\ [][NextBatch]_vars

(***************************************************************************)
(* The two comparators, called on a pair of values                         *)
(***************************************************************************)
ComparedValues ==
    { None, Str(<< >>), Str(<<" ">>), Str(<<"a", "b">>), Str(<<"A", "b", " ">>),
      Num(0), Num(45000), Num(45005), Bool(FALSE),
      Str(TYPE_YACHT), EnumMember(TYPE_YACHT), EnumMember(TYPE_MEGAYACHT) }

ComparedVarsUnchanged ==
    UNCHANGED << existing_vessel, pc, call, result, mergeManyVars, identified,
                 enhancementVars, new_data_after, smart, detector, batch >>

\* merger._values_equal(val1, val2)
MergerValuesEqualCall ==
    /\ pc = "idle"
    /\ \E val1 \in ComparedValues, val2 \in ComparedValues :
            compared' = [by |-> "merger", val1 |-> val1, val2 |-> val2,
                         equal |-> MergerValuesEqual(val1, val2)]
    /\ ComparedVarsUnchanged

\* enhancement_service._values_equal(val1, val2)
EnhancementValuesEqualCall ==
    /\ pc = "idle"
    /\ \E val1 \in ComparedValues, val2 \in ComparedValues :
            compared' = [by |-> "enhancement", val1 |-> val1, val2 |-> val2,
                         equal |-> EnhancementValuesEqual(val1, val2)]
    /\ ComparedVarsUnchanged

NextCompare == MergerValuesEqualCall \/ EnhancementValuesEqualCall

SpecCompare == InitSmart /\ [][NextCompare]_vars

(***************************************************************************)
(* Vocabulary of the properties.  The properties of a merged map are       *)
(* stated of a MergeResult with success true; what a failed merge returns  *)
(* is C13.                                                                 *)
(***************************************************************************)
Range(q) == {q[i] : i \in 1..Len(q)}
ConflictFields(r) == {r.conflicts[i].field_name : i \in 1..Len(r.conflicts)}
IdentifierFields == {"imo_number", "mmsi_number", "official_number"}

\* the record merge_one read: the non-None attributes, enums by their value
ExistingRecord == VesselToDict(existing_vessel)
\* a candidate value that is a value: merge_one passes over None and ''
Supplied(v) == ~IsNone(v) /\ ~IsEmptyStr(v)
\* absent (None), empty string or zero
Empty(v) == IsNone(v) \/ IsEmptyStr(v) \/ (IsNumber(v) /\ NumOf(v) = 0)
\* equality under the comparator as section 4.1 words it: numbers closer
\* than 0.01, strings equal after trim and case-fold, otherwise the same value
EqualUnderTolerance(a, b) ==
    IF IsNumber(a) /\ IsNumber(b) THEN Abs(NumOf(a) - NumOf(b)) < 10
    ELSE IF IsStr(a) /\ IsStr(b) THEN Lower(Strip(a.s)) = Lower(Strip(b.s))
    ELSE a = b

(***************************************************************************)
(* C1.  merge_one with auto_resolve on: an identifier field whose existing *)
(* value is non-empty and whose candidate value differs from it keeps the  *)
(* existing value in merged, has a conflict in conflicts, is listed in     *)
(* auto_resolved and is not listed in manual_required, whatever the        *)
(* reliability of the candidate source.                                    *)
(***************************************************************************)
C1_IdentifierKept ==
    (pc = "merge_one" /\ result.success /\ call.auto_resolve) =>
        \A f \in IdentifierFields \cap DOMAIN call.new_data :
            ( /\ ~Empty(Get(ExistingRecord, f))
              /\ Supplied(call.new_data[f])
              /\ ~EqualUnderTolerance(Get(ExistingRecord, f), call.new_data[f]) )
            => /\ f \in DOMAIN result.merged_data
               /\ result.merged_data[f] = ExistingRecord[f]
               /\ f \in ConflictFields(result)
               /\ f \in Range(result.auto_resolved)
               /\ f \notin Range(result.manual_required)

\* existing IMO 9074729, candidate IMO 1234567 from the registry itself
C1_Witness ==
    /\ pc = "merge_one" /\ call.auto_resolve
    /\ call.new_source = "imo_registry" /\ call.existing_source = "database"
    /\ GetAttr(existing_vessel, "imo_number") = Str(IMO_A)
    /\ "imo_number" \in DOMAIN call.new_data
    /\ call.new_data["imo_number"] = Str(IMO_B)
    /\ result.merged_data["imo_number"] = Str(IMO_A)
    /\ result.auto_resolved = << "imo_number" >>

(***************************************************************************)
(* C4.  merge_one: a candidate field whose existing value is absent, the   *)
(* empty string or zero gets the candidate value in merged, and the field  *)
(* has no conflict and is in neither auto_resolved nor manual_required.    *)
(* (A candidate of None or '' is no candidate: merge_one passes over it.)  *)
(***************************************************************************)
C4_EmptyExistingAccepts ==
    (pc = "merge_one" /\ result.success) =>
        \A f \in DOMAIN call.new_data :
            (Supplied(call.new_data[f]) /\ Empty(Get(ExistingRecord, f)))
            => /\ f \in DOMAIN result.merged_data
               /\ result.merged_data[f] = call.new_data[f]
               /\ f \notin ConflictFields(result)
               /\ f \notin Range(result.auto_resolved)
               /\ f \notin Range(result.manual_required)

\* a zero length, an empty builder and an unset name, each filled by a candidate
C4_Witness ==
    /\ pc = "merge_one"
    /\ \/ /\ GetAttr(existing_vessel, "length_overall") = Num(0)
          /\ "length_overall" \in DOMAIN call.new_data
          /\ result.merged_data["length_overall"] = Num(45300)
       \/ /\ GetAttr(existing_vessel, "builder") = Str(<< >>)
          /\ "builder" \in DOMAIN call.new_data
          /\ result.merged_data["builder"] = Str(<<"B">>)
    /\ result.conflicts = << >>

(***************************************************************************)
(* C5.  merge_one: a candidate field whose existing and candidate values   *)
(* are equal under the comparator keeps the existing value in merged and   *)
(* records no conflict.                                                    *)
(***************************************************************************)
\* as stated: for every existing value, a zero included
C5_EqualKeepsExisting_AsStated ==
    (pc = "merge_one" /\ result.success) =>
        \A f \in DOMAIN call.new_data \cap DOMAIN ExistingRecord :
            ( /\ Supplied(call.new_data[f])
              /\ EqualUnderTolerance(ExistingRecord[f], call.new_data[f]) )
            => /\ f \in DOMAIN result.merged_data
               /\ result.merged_data[f] = ExistingRecord[f]
               /\ f \notin ConflictFields(result)

\* C5 as the code has it: the existing value is present (not None, '' or 0)
C5_EqualKeepsExisting ==
    (pc = "merge_one" /\ result.success) =>
        \A f \in DOMAIN call.new_data \cap DOMAIN ExistingRecord :
            ( /\ Supplied(call.new_data[f])
              /\ ~Empty(ExistingRecord[f])
              /\ EqualUnderTolerance(ExistingRecord[f], call.new_data[f]) )
            => /\ f \in DOMAIN result.merged_data
               /\ result.merged_data[f] = ExistingRecord[f]
               /\ f \notin ConflictFields(result)

\* 45.0 against 45.005, "Ab" against "ab ", yacht against 'yacht'
C5_Witness ==
    /\ pc = "merge_one"
    /\ \E f \in {"length_overall", "vessel_name", "vessel_type"} :
         /\ f \in DOMAIN call.new_data /\ f \in DOMAIN ExistingRecord
         /\ ~Empty(ExistingRecord[f])
         /\ call.new_data[f] # ExistingRecord[f]
         /\ EqualUnderTolerance(ExistingRecord[f], call.new_data[f])
         /\ result.merged_data[f] = ExistingRecord[f]
    /\ result.conflicts = << >>

(***************************************************************************)
(* C2.  merge_many, for every list of sources and both auto_resolve        *)
(* settings: an identifier that is non-empty in the original record has    *)
(* the original value in the merged map after every pass and in the map    *)
(* returned, and an identifier that a pass filled in is not changed by a   *)
(* later pass.                                                             *)
(***************************************************************************)
C2_OriginalIdentifierKept ==
    \A f \in IdentifierFields :
        ~Empty(Get(ExistingRecord, f)) =>
            /\ pc = "merge_many" =>
                 /\ f \in DOMAIN many.current_data
                 /\ many.current_data[f] = ExistingRecord[f]
            /\ (pc = "merge_many_done" /\ result.success) =>
                 /\ f \in DOMAIN result.merged_data
                 /\ result.merged_data[f] = ExistingRecord[f]

C2_FilledIdentifierKept ==
    (pc = "merge_many" /\ pc' = "merge_many") =>
        \A f \in IdentifierFields \cap DOMAIN many.current_data :
            ~Empty(many.current_data[f]) =>
                /\ f \in DOMAIN many'.current_data
                /\ many'.current_data[f] = many.current_data[f]

C2_IdentifiersStable == [](C2_OriginalIdentifierKept) /\ [][C2_FilledIdentifierKept]_vars

\* no MMSI at first; the first source fills it in, the second supplies another
C2_Witness ==
    /\ pc = "merge_many_done" /\ passes = 2 /\ call.auto_resolve
    /\ IsNone(GetAttr(existing_vessel, "mmsi_number"))
    /\ call.new_source = "marinetraffic"
    /\ call.new_data = [mmsi_number |-> Str(MMSI_B)]
    /\ result.merged_data["mmsi_number"] = Str(MMSI_A)
    /\ ConflictFields(result) = {"mmsi_number"}

(***************************************************************************)
(* C6.  merge_many called with the one-element list [(candidate, source)]  *)
(* returns the same merged map, conflicts, auto_resolved, manual_required  *)
(* and warnings as merge_one called with that candidate and source.        *)
(***************************************************************************)
C6_SingleSourceIsMergeOne ==
    (pc = "merge_many_done" /\ result.success /\ passes = 1) =>
        LET direct == MergeVesselData(existing_vessel, call.new_data, call.new_source,
                                      "database", call.auto_resolve)
        IN  /\ result.merged_data = direct.merged_data
            /\ result.conflicts = direct.conflicts
            /\ result.auto_resolved = direct.auto_resolved
            /\ result.manual_required = direct.manual_required
            /\ result.warnings = direct.warnings

(***************************************************************************)
(* C7.  merge_many: a field that a pass left manually pending (listed in   *)
(* manual_required) has, in the merged map returned, the existing value it *)
(* had when it was left pending, whatever later sources supply for it.     *)
(***************************************************************************)
\* the conflicts of r that stayed unresolved
PendingConflicts(r, auto_resolve) ==
    { i \in 1..Len(r.conflicts) :
        ~auto_resolve \/ IsNone(ResolveConflict(r.conflicts[i])) }

C7_PendingKeepsExisting ==
    (pc = "merge_many_done" /\ result.success) =>
        \A i \in PendingConflicts(result, call.auto_resolve) :
            /\ result.conflicts[i].field_name \in Range(result.manual_required)
            /\ result.conflicts[i].field_name \in DOMAIN result.merged_data
            /\ result.merged_data[result.conflicts[i].field_name]
                 = result.conflicts[i].existing_value

(***************************************************************************)
(* C8.  merge_many: the merged map of pass k is the existing record pass   *)
(* k+1 reads, and every field of pass k's merged map that the source of    *)
(* pass k+1 does not supply is in the merged map of pass k+1 with the same *)
(* value (fields accepted from a source included).                         *)
(***************************************************************************)
C8_PassStep ==
    (pc = "merge_many" /\ passes >= 1 /\ passes' = passes + 1) =>
        /\ VesselToDict(temp_vessel') = many.current_data
        /\ \A f \in DOMAIN many.current_data \ DOMAIN call'.new_data :
             /\ f \in DOMAIN many'.current_data
             /\ many'.current_data[f] = many.current_data[f]

C8_MergedBecomesExisting == [][C8_PassStep]_vars

(***************************************************************************)
(* C3.  The enhancement path emits no changed identifier: when             *)
(* apply_enhancement, after enhance_vessel_from_marinetraffic, calls the   *)
(* vessel store, the field map it hands over holds no imo_number or        *)
(* mmsi_number that differs from a non-empty stored one, whatever          *)
(* selected_fields is.  (The API client hands over a record keyed by       *)
(* schema field names; the mapper reads MarineTraffic's raw keys, so the   *)
(* enhancement carries no field at all.)                                   *)
(***************************************************************************)
C3_ApplyStep ==
    (pc = "enhanced" /\ pc' = "applied" /\ store_update'.called) =>
        \A f \in {"imo_number", "mmsi_number"} \cap DOMAIN store_update'.updated_data :
            ~Empty(GetAttr(existing_vessel, f)) =>
                store_update'.updated_data[f] = GetAttr(existing_vessel, f)

C3_NoChangedIdentifier == [][C3_ApplyStep]_vars

\* the stored IMO is 9074729, MarineTraffic answered with 1234567, and the
\* store was called
C3_Witness ==
    /\ pc = "applied" /\ store_update.called /\ enhancement.success
    /\ GetAttr(existing_vessel, "imo_number") = Str(IMO_A)
    /\ api_response.success
    /\ "imo_number" \in DOMAIN api_response.data
    /\ api_response.data["imo_number"] = Str(IMO_B)
    /\ "imo_number" \notin DOMAIN store_update.updated_data

Within10Percent(e, n) == 10 * Abs(NumOf(e) - NumOf(n)) < Max(NumOf(e), NumOf(n))
Apart50Percent(e, n) == 2 * Abs(NumOf(e) - NumOf(n)) = Max(NumOf(e), NumOf(n))
\* the candidate values of the conflict's field that lie 50% from its existing value
FarValues(c) == {n \in NewValues(c.field_name) : IsNumber(n) /\ Apart50Percent(c.existing_value, n)}
NumericAndClose(c) ==
    /\ c.field_type = "numeric"
    /\ IsNumber(c.existing_value) /\ IsNumber(c.new_value)
    /\ Within10Percent(c.existing_value, c.new_value)

C10_CloseValuesBoost ==
    /\ \A i \in 1..Len(result.conflicts) :
         LET c == result.conflicts[i]
         IN  NumericAndClose(c) =>
               \A far \in FarValues(c) :
                 c.confidence >= 20 + CreateConflict(c.field_name, c.existing_value, far,
                                                     c.existing_source, c.new_source).confidence
    /\ \A i \in 1..Len(identified.conflicts) :
         LET c == identified.conflicts[i]
         IN  NumericAndClose(c) =>
               \A far \in FarValues(c) :
                 c.confidence >= 20 + CalculateConflictConfidence(c.existing_value, far,
                                                                  c.new_source)

(***************************************************************************)
(* C11.  merge_one with auto_resolve on: a conflict on a field whose       *)
(* policy is prefer_reliable, or that has no listed policy, is resolved,   *)
(* and merged holds the candidate value exactly when the candidate         *)
(* source's reliability level is strictly higher than the existing         *)
(* source's, the existing value otherwise.  In particular the Serenity     *)
(* record merged with {length_overall 45.3, builder Feadship} from         *)
(* boat_international (medium) against the default existing source gives   *)
(* length_overall 45.0, builder Feadship and the one conflict              *)
(* length_overall.                                                         *)
(***************************************************************************)
\* the policy the tables give a field: prefer_reliable, or none listed
UnderReliabilityPolicy(f) ==
    f \notin DOMAIN FieldMergeStrategies \/ FieldMergeStrategies[f] = "prefer_reliable"

SerenityCandidate == [length_overall |-> Num(45300), builder |-> Str(FEADSHIP)]
SerenityCall ==
    /\ pc = "merge_one" /\ call.auto_resolve
    /\ existing_vessel = SerenityVessel
    /\ call.new_data = SerenityCandidate
    /\ call.new_source = "boat_international" /\ call.existing_source = "database"

C11_PreferReliable ==
    (pc = "merge_one" /\ result.success /\ call.auto_resolve) =>
        /\ \A i \in 1..Len(result.conflicts) :
             LET c == result.conflicts[i]
             IN  UnderReliabilityPolicy(c.field_name) =>
                   /\ c.field_name \in Range(result.auto_resolved)
                   /\ c.field_name \in DOMAIN result.merged_data
                   /\ result.merged_data[c.field_name] =
                        IF c.new_reliability > c.existing_reliability
                        THEN c.new_value ELSE c.existing_value
        /\ SerenityCall =>
             /\ result.success
             /\ result.merged_data["length_overall"] = Num(45000)
             /\ result.merged_data["builder"] = Str(FEADSHIP)
             /\ Len(result.conflicts) = 1
             /\ result.conflicts[1].field_name = "length_overall"

\* the Serenity scenario, with its tie of medium against medium
C11_Witness ==
    /\ SerenityCall
    /\ Len(result.conflicts) = 1
    /\ result.conflicts[1].new_reliability = MEDIUM
    /\ result.conflicts[1].existing_reliability = MEDIUM
    /\ result.merged_data["length_overall"] = Num(45000)

(***************************************************************************)
(* C12.  Every source name handed to the engine resolves to exactly one of *)
(* the five reliability levels, and a source name that is not in the       *)
(* reliability table resolves to the lowest of them, VERY_LOW.             *)
(***************************************************************************)
ReliabilityLevels == {VERY_HIGH, HIGH, MEDIUM, LOW, VERY_LOW}
\* the lowest of the five levels
LowestLevel == CHOOSE l \in ReliabilityLevels : \A k \in ReliabilityLevels : l <= k

\* the level recorded for a source is a level, the lowest for an unlisted source
ResolvesAsSpecified(table, source, reliability) ==
    /\ reliability \in ReliabilityLevels
    /\ source \notin DOMAIN table => reliability = LowestLevel

C12_UnknownSourceLowest ==
    /\ \A i \in 1..Len(result.conflicts) :
         LET c == result.conflicts[i]
         IN  /\ ResolvesAsSpecified(MergerSourceReliability, c.new_source, c.new_reliability)
             /\ ResolvesAsSpecified(MergerSourceReliability, c.existing_source,
                                    c.existing_reliability)
    /\ \A i \in 1..Len(identified.conflicts) :
         LET c == identified.conflicts[i]
         IN  ResolvesAsSpecified(EnhancementSourceReliability, c.new_source,
                                 c.new_reliability)

(***************************************************************************)
(* C13.  A merge that hits an internal failure returns success false, a    *)
(* non-empty error_message and an empty merged map, conflicts,             *)
(* auto_resolved, manual_required and warnings: the merge_vessel_data call *)
(* of a pass, and merge_many itself when pass k fails after earlier passes *)
(* recorded conflicts or accepted fields.  (The failure of the model is    *)
(* the TypeError _validate_merged_data raises on a max_speed that a source *)
(* supplied as a string.)                                                  *)
(***************************************************************************)
EmptyFailure(r) ==
    /\ r.error_message # ""
    /\ r.merged_data = EmptyDict
    /\ r.conflicts = << >> /\ r.auto_resolved = << >>
    /\ r.manual_required = << >> /\ r.warnings = << >>

C13_FailureIsEmpty ==
    /\ (merge_result # NoResult /\ ~merge_result.success) => EmptyFailure(merge_result)
    /\ (pc = "merge_many_done" /\ ~result.success) => EmptyFailure(result)

\* the first pass recorded a conflict and accepted a field, the second failed
C13_Witness ==
    /\ pc = "merge_many_done" /\ ~result.success
    /\ passes = 1
    /\ many.all_conflicts # << >>
    /\ DOMAIN many.current_data # DOMAIN VesselToDict(existing_vessel)
    /\ result.error_message # ""

(***************************************************************************)
(* C14.  After merge_one, whenever the merged map violates one of the four *)
(* cross-field checks (beam greater than length_overall; net_tonnage       *)
(* greater than gross_tonnage; max_speed above the sanity ceiling of 70    *)
(* knots; a present imo_number failing the check digit), warnings holds a  *)
(* warning for that violation, and the result has success true with the    *)
(* merged map intact.                                                      *)
(***************************************************************************)
\* the merged map merge_one built from the call, before the checks ran
MergedOfCall ==
    LET existing_data == VesselToDict(existing_vessel)
    IN  AddExisting(MergeLoop(MergeLocals0, existing_data, call.new_data,
                              Items(call.new_data), call.existing_source,
                              call.new_source, call.auto_resolve).merged_data,
                    existing_data)

\* both fields hold a number and the first is the greater
NumberAbove(m, f, g) ==
    /\ f \in DOMAIN m /\ g \in DOMAIN m
    /\ IsNumber(m[f]) /\ IsNumber(m[g]) /\ NumOf(m[g]) # 0
    /\ NumOf(m[f]) > NumOf(m[g])
SpeedAboveCeiling(m) ==
    "max_speed" \in DOMAIN m /\ IsNumber(m["max_speed"]) /\ NumOf(m["max_speed"]) > 70000
ImoFailsCheckDigit(m) ==
    /\ "imo_number" \in DOMAIN m /\ IsStr(m["imo_number"])
    /\ Len(m["imo_number"].s) = 7
    /\ \A i \in 1..7 : m["imo_number"].s[i] \in DigitChars
    /\ LET d == [i \in 1..7 |-> DigitVal(m["imo_number"].s[i])]
       IN  (7 * d[1] + 6 * d[2] + 5 * d[3] + 4 * d[4] + 3 * d[5] + 2 * d[6]) % 10 # d[7]

WarningTexts == {result.warnings[i].text : i \in 1..Len(result.warnings)}
BeamWarning == "Beam is greater than length overall - please verify"
SpeedWarning == "Maximum speed seems very high"
ImoWarning == "IMO number validation failed"

C14_ViolationsWarned ==
    pc = "merge_one" =>
        LET m == MergedOfCall
            violated == NumberAbove(m, "beam", "length_overall")
                        \/ NumberAbove(m, "net_tonnage", "gross_tonnage")
                        \/ SpeedAboveCeiling(m) \/ ImoFailsCheckDigit(m)
        IN  /\ violated => (result.success /\ result.merged_data = m)
            /\ NumberAbove(m, "beam", "length_overall") => BeamWarning \in WarningTexts
            /\ SpeedAboveCeiling(m) => SpeedWarning \in WarningTexts
            /\ ImoFailsCheckDigit(m) => ImoWarning \in WarningTexts
            /\ NumberAbove(m, "net_tonnage", "gross_tonnage") =>
                    WarningTexts \ {BeamWarning, SpeedWarning, ImoWarning} # {}

(***************************************************************************)
(* C15.  merge_one and merge_many leave their inputs unchanged: after the  *)
(* call, and after every pass of merge_many, every attribute of the        *)
(* existing vessel object and every entry of the candidate map has the     *)
(* value it had before, whether the merge succeeds or fails.               *)
(***************************************************************************)
C15_Step ==
    /\ existing_vessel' = existing_vessel
    /\ call' # call => new_data_after' = call'.new_data

C16_Deterministic ==
    (smart.before.op = smart.latest.op /\ smart.before.args = smart.latest.args)
        => smart.before.outcome = smart.latest.outcome

(***************************************************************************)
(* C17.  Neither comparator reports an absent or empty value equal to a    *)
(* present one: for every pair of values of which exactly one is None or   *)
(* the empty string, _values_equal returns False.                          *)
(***************************************************************************)
AbsentOrEmpty(v) == IsNone(v) \/ IsEmptyStr(v)

C17_EmptyNeverEqualsPresent ==
    (compared.by # "" /\ AbsentOrEmpty(compared.val1) # AbsentOrEmpty(compared.val2))
        => ~compared.equal

(***************************************************************************)
(* C18.  The list get_enhancement_opportunities returns is sorted by       *)
(* confidence in descending order, for every vessel and on every return    *)
(* path, the one through the except block included.                        *)
(***************************************************************************)
C18_SortedDescending ==
    pc = "opportunities" =>
        \A i \in 1..Len(detector.opportunities), j \in 1..Len(detector.opportunities) :
            i < j => detector.opportunities[i].confidence
                        >= detector.opportunities[j].confidence

\* a stored yacht with both identifiers: the vessel type comes back from the
\* store as a string, the directory-scrape step raises, and the two
\* tracking-API opportunities are returned without the sort
C18_Witness ==
    /\ pc = "opportunities" /\ detector.raised
    /\ Len(detector.opportunities) = 2
    /\ detector.opportunities[1].confidence = 95
    /\ detector.opportunities[2].confidence = 90

(***************************************************************************)
(* C19.  For every vessel, a non-empty imo_number yields one tracking-API  *)
(* opportunity with confidence 0.95 and a non-empty mmsi_number yields one *)
(* tracking-API opportunity with confidence 0.90, both present in the list *)
(* the detector returns.                                                   *)
(***************************************************************************)
\* the detector was called for the stored vessel and returned
DetectedStored == pc = "opportunities" /\ detector.vessel_id = STORED_ID
\* the positions of the returned list that hold an opportunity of a source
\* keyed on an identifier
OpportunitiesFor(source, identifier_type) ==
    { i \in 1..Len(detector.opportunities) :
        /\ detector.opportunities[i].source = source
        /\ detector.opportunities[i].identifier_type = identifier_type }
\* exactly one opportunity of the source on the identifier, with this
\* confidence and carrying the identifier's value
YieldsOne(source, identifier_type, value, confidence) ==
    /\ Cardinality(OpportunitiesFor(source, identifier_type)) = 1
    /\ \A i \in OpportunitiesFor(source, identifier_type) :
         /\ detector.opportunities[i].confidence = confidence
         /\ detector.opportunities[i].identifier_value = value
IdentifiersYield ==
    /\ Supplied(GetAttr(existing_vessel, "imo_number"))
         => YieldsOne("marinetraffic", "imo", GetAttr(existing_vessel, "imo_number"), 95)
    /\ Supplied(GetAttr(existing_vessel, "mmsi_number"))
         => YieldsOne("marinetraffic", "mmsi", GetAttr(existing_vessel, "mmsi_number"), 90)

YachtSubtypes ==
    { TYPE_YACHT, TYPE_MOTOR_YACHT, TYPE_SAILING_YACHT, TYPE_SUPERYACHT, TYPE_MEGAYACHT }
C20_YachtYieldsDirectoryScrape ==
    ( /\ DetectedStored
      /\ GetAttr(existing_vessel, "vessel_type") # None
      /\ GetAttr(existing_vessel, "vessel_type").s \in YachtSubtypes
      /\ Supplied(GetAttr(existing_vessel, "vessel_name")) )
    => \E i \in OpportunitiesFor("boat_international", "name") :
          /\ detector.opportunities[i].confidence = 70
          /\ detector.opportunities[i].identifier_value
                = GetAttr(existing_vessel, "vessel_name")

(***************************************************************************)
(* C21.  A vessel with no imo_number, no mmsi_number and not (a yacht type *)
(* with a non-empty name) yields an empty list; a vessel with no           *)
(* imo_number, no mmsi_number, vessel_type motor_yacht and vessel_name     *)
(* Azzam yields exactly one opportunity (directory-scrape, confidence      *)
(* 0.70) and no tracking-API opportunity; an unknown vessel id yields an   *)
(* empty list.                                                             *)
(***************************************************************************)
NoIdentifiers ==
    /\ ~Supplied(GetAttr(existing_vessel, "imo_number"))
    /\ ~Supplied(GetAttr(existing_vessel, "mmsi_number"))
YachtWithName ==
    /\ GetAttr(existing_vessel, "vessel_type") # None
    /\ GetAttr(existing_vessel, "vessel_type").s \in YachtSubtypes
    /\ Supplied(GetAttr(existing_vessel, "vessel_name"))
IsAzzam ==
    /\ NoIdentifiers
    /\ GetAttr(existing_vessel, "vessel_type") # None
    /\ GetAttr(existing_vessel, "vessel_type").s = TYPE_MOTOR_YACHT
    /\ GetAttr(existing_vessel, "vessel_name") = Str(AZZAM)
C21_NothingToEnhance ==
    (DetectedStored /\ NoIdentifiers /\ ~YachtWithName) => detector.opportunities = << >>
C21_UnknownVessel ==
    (pc = "opportunities" /\ detector.vessel_id # STORED_ID)
        => detector.opportunities = << >>
C21_Azzam ==
    (DetectedStored /\ IsAzzam) =>
        /\ Len(detector.opportunities) = 1
        /\ detector.opportunities[1].source = "boat_international"
        /\ detector.opportunities[1].confidence = 70
C21_Scenarios == C21_NothingToEnhance /\ C21_UnknownVessel /\ C21_Azzam

(***************************************************************************)
(* C22.  In merge_one, a conflict that is not resolved automatically (its  *)
(* policy is manual, or auto_resolve is false) keeps the existing value in *)
(* merged, lists the field in manual_required and not in auto_resolved;    *)
(* with auto_resolve false, auto_resolved is empty and merged equals the   *)
(* existing value on every conflicting field.                              *)
(***************************************************************************)
NotResolvedAutomatically(c) == c.suggested_resolution = "manual" \/ ~call.auto_resolve
C22_UnresolvedKeepsExisting ==
    (pc = "merge_one" /\ result.success) =>
        /\ \A i \in 1..Len(result.conflicts) :
             LET c == result.conflicts[i]
             IN  NotResolvedAutomatically(c) =>
                   /\ c.field_name \in DOMAIN result.merged_data
                   /\ result.merged_data[c.field_name] = ExistingRecord[c.field_name]
                   /\ c.field_name \in Range(result.manual_required)
                   /\ c.field_name \notin Range(result.auto_resolved)
        /\ ~call.auto_resolve => result.auto_resolved = << >>

\* a conflict on a manual field in a call that resolves automatically,
\* beside a conflict that was resolved
C22_Witness ==
    /\ pc = "merge_one" /\ result.success /\ call.auto_resolve
    /\ "class_notation" \in ConflictFields(result)
    /\ result.manual_required = << "class_notation" >>
    /\ result.merged_data["class_notation"] = ExistingRecord["class_notation"]
    /\ result.merged_data["class_notation"] # call.new_data["class_notation"]

(***************************************************************************)
(* C23.  In merge_one, every field that has a value in the existing record *)
(* and is absent from the candidate map (or whose candidate value is None  *)
(* or the empty string) appears in merged with exactly its existing value, *)
(* and merged has no field that is in neither the existing record nor the  *)
(* candidate map.                                                          *)
(***************************************************************************)
NotInCandidate(f) == f \notin DOMAIN call.new_data \/ ~Supplied(call.new_data[f])
C23_AbsentFieldsCopied ==
    (pc = "merge_one" /\ result.success) =>
        /\ \A f \in DOMAIN ExistingRecord :
             NotInCandidate(f) =>
                /\ f \in DOMAIN result.merged_data
                /\ result.merged_data[f] = ExistingRecord[f]
        /\ DOMAIN result.merged_data \subseteq (DOMAIN ExistingRecord) \cup (DOMAIN call.new_data)

\* an existing IMO number against a candidate map that carries the key with
\* the empty string beside a field it does supply
C23_Witness ==
    /\ pc = "merge_one" /\ result.success
    /\ "imo_number" \in DOMAIN ExistingRecord
    /\ "imo_number" \in DOMAIN call.new_data
    /\ call.new_data["imo_number"] = Str(<< >>)
    /\ result.merged_data["imo_number"] = Str(IMO_A)
    /\ \E f \in DOMAIN call.new_data : Supplied(call.new_data[f])

(***************************************************************************)
(* C24.  For a conflict on a prefer_complete field, the resolved value is  *)
(* the candidate exactly when the candidate is more complete (strictly     *)
(* longer trimmed string, non-zero number against a zero existing number,  *)
(* strictly longer list) and the existing value on every tie or mixed-type *)
(* pair; a numeric prefer_complete field in conflict, its existing value   *)
(* being a number other than zero, always resolves to the existing value.  *)
(***************************************************************************)
\* the length of a string between its first and last character other than
\* a blank
TrimmedLength(q) ==
    LET inked == {i \in 1..Len(q) : q[i] # " "}
    IN  IF inked = {} THEN 0
        ELSE (CHOOSE i \in inked : \A j \in inked : j <= i)
             - (CHOOSE i \in inked : \A j \in inked : i <= j) + 1
MoreCompleteAsSpecified(candidate, existing) ==
    \/ IsStr(candidate) /\ IsStr(existing)
         /\ TrimmedLength(candidate.s) > TrimmedLength(existing.s)
    \/ IsNumber(candidate) /\ IsNumber(existing)
         /\ NumOf(candidate) # 0 /\ NumOf(existing) = 0
    \/ IsList(candidate) /\ IsList(existing) /\ Len(candidate.s) > Len(existing.s)
NumericCompleteFields ==
    {"guest_capacity", "crew_capacity", "max_speed", "cruise_speed", "range_nm"}
C24_PreferComplete ==
    (pc = "merge_one" /\ result.success /\ call.auto_resolve) =>
        \A i \in 1..Len(result.conflicts) :
            LET c == result.conflicts[i]
            IN  c.suggested_resolution = "prefer_complete" =>
                  /\ c.field_name \in Range(result.auto_resolved)
                  /\ result.merged_data[c.field_name] =
                        IF MoreCompleteAsSpecified(c.new_value, c.existing_value)
                        THEN c.new_value ELSE c.existing_value
                  /\ c.field_name \in NumericCompleteFields
                        => result.merged_data[c.field_name] = c.existing_value

\* a builder longer before trimming and shorter after it: the existing
\* builder stays
C24_Witness ==
    /\ pc = "merge_one" /\ result.success /\ call.auto_resolve
    /\ "builder" \in ConflictFields(result)
    /\ call.new_data["builder"] = Str(<<"B", " ", " ">>)
    /\ ExistingRecord["builder"] = Str(<<"a", "b">>)
    /\ result.merged_data["builder"] = Str(<<"a", "b">>)

(***************************************************************************)
(* C25.  In a successful merge_many, conflicts, auto_resolved,             *)
(* manual_required and warnings are each the concatenation, in source-list *)
(* order, of the lists of the individual passes: the call starts with four *)
(* empty lists, every pass leaves the entries recorded so far in place and *)
(* puts its own entries, in their order, behind them, and the call returns *)
(* the four lists as the last pass left them.                              *)
(***************************************************************************)
C25_Step ==
    /\ (pc = "idle" /\ pc' = "merge_many") =>
          /\ many'.all_conflicts = << >> /\ many'.all_auto_resolved = << >>
          /\ many'.all_manual_required = << >> /\ many'.all_warnings = << >>
    /\ (pc = "merge_many" /\ passes' = passes + 1) =>
          /\ merge_result'.success
          /\ many'.all_conflicts = many.all_conflicts \o merge_result'.conflicts
          /\ many'.all_auto_resolved = many.all_auto_resolved \o merge_result'.auto_resolved
          /\ many'.all_manual_required
                = many.all_manual_required \o merge_result'.manual_required
          /\ many'.all_warnings = many.all_warnings \o merge_result'.warnings
    /\ (pc = "merge_many" /\ pc' = "merge_many_done" /\ result'.success) =>
          /\ result'.conflicts = many.all_conflicts
          /\ result'.auto_resolved = many.all_auto_resolved
          /\ result'.manual_required = many.all_manual_required
          /\ result'.warnings = many.all_warnings
C25_AccumulateInSourceOrder == [][C25_Step]_vars

\* two sources, each with a conflict of its own: the first source's conflict
\* comes first, one field resolved and the other left to the caller
C25_Witness ==
    /\ pc = "merge_many_done" /\ result.success /\ passes = 2
    /\ Len(result.conflicts) = 2
    /\ result.conflicts[1].field_name # result.conflicts[2].field_name
    /\ Len(merge_result.conflicts) = 1
    /\ result.conflicts[2] = merge_result.conflicts[1]
    /\ Len(result.auto_resolved) = 1 /\ Len(result.manual_required) = 1

(***************************************************************************)
(* C26.  apply_enhancement writes only the selected subset: whenever       *)
(* selected_fields is given (any list other than None, the empty list      *)
(* included), the field map passed to the vessel store contains no field   *)
(* outside selected_fields; only selected_fields = None writes every field *)
(* of new_data.                                                            *)
(***************************************************************************)
C26_OnlySelectedWritten ==
    (pc = "applied" /\ store_update.called) =>
        IF store_update.selected_fields.given
        THEN DOMAIN store_update.updated_data \subseteq store_update.selected_fields.fields
        ELSE store_update.updated_data = enhancement.new_data

(***************************************************************************)
(* C27.  In perform_batch_enhancement, for each vessel the opportunities   *)
(* matching the requested sources are tried in descending confidence and   *)
(* the recorded result is that of the first opportunity that succeeds: a   *)
(* vessel's recorded result is a failure only when every matching          *)
(* opportunity failed, and a vessel with no matching opportunity gets no   *)
(* entry.                                                                  *)
(***************************************************************************)
\* the opportunities of the batch's vessel that match the requested sources
MatchingOpportunities ==
    SelectSeq(GetEnhancementOpportunities(GetVesselById(batch.vessel_id),
                                          batch.api_key_set).opportunities,
              LAMBDA o : o.source \in batch.sources)
\* what an attempt on a matching opportunity returns
AttemptOf(o) ==
    AttemptOpportunity(o, batch.api_key_set, batch.answers, GetVesselById(batch.vessel_id))
C27_FirstSuccessRecorded ==
    pc = "batch" =>
        /\ \A i \in 1..Len(batch.attempted), j \in 1..Len(batch.attempted) :
             i < j => batch.attempted[i].confidence >= batch.attempted[j].confidence
        /\ (batch.results = << >>) <=> (MatchingOpportunities = << >>)
        /\ batch.results # << >> =>
             IF \E i \in 1..Len(MatchingOpportunities) :
                    AttemptOf(MatchingOpportunities[i]).success
             THEN LET first == CHOOSE i \in 1..Len(MatchingOpportunities) :
                                  /\ AttemptOf(MatchingOpportunities[i]).success
                                  /\ \A j \in 1..(i - 1) :
                                        ~AttemptOf(MatchingOpportunities[j]).success
                  IN  batch.results[1] = AttemptOf(MatchingOpportunities[first])
             ELSE ~batch.results[1].success

(***************************************************************************)
(* C28.  For the images field, smart_merge_lists returns, for every pair   *)
(* of input lists (an empty existing list or an empty new list included),  *)
(* a list with at most 10 entries and no duplicate entry, in order of      *)
(* first occurrence with existing entries before new ones.                 *)
(***************************************************************************)
\* the position at which an entry first occurs in a list
FirstOccurrence(q, e) == CHOOSE i \in 1..Len(q) : q[i] = e /\ \A j \in 1..(i - 1) : q[j] # e
ImagesLimit == 10
C28_ImagesMerged ==
    (smart.latest.op = "smart_merge_lists" /\ smart.latest.args[3] = "images") =>
        LET combined == smart.latest.args[1] \o smart.latest.args[2]
            merged == smart.latest.outcome.value
        IN  /\ ~smart.latest.outcome.raised
            /\ Len(merged) <= ImagesLimit
            /\ \A i \in 1..Len(merged), j \in 1..Len(merged) :
                 i < j => /\ merged[i] # merged[j]
                          /\ FirstOccurrence(combined, merged[i])
                                < FirstOccurrence(combined, merged[j])
            /\ \A i \in 1..Len(merged) : merged[i] \in Range(combined)
            /\ Len(merged) < ImagesLimit => Range(combined) \subseteq Range(merged)

(***************************************************************************)
(* C29.  In every successful MergeResult of merge_one, auto_resolved and   *)
(* manual_required are disjoint, each conflicting field appears in exactly *)
(* one of them, the set of field names in conflicts equals their union,    *)
(* there is at most one conflict per field, and every conflict has a       *)
(* non-empty non-zero existing_value that is not equal to its new_value    *)
(* under the comparator.                                                   *)
(***************************************************************************)
\* a value that is a value: not None, not an empty string or list, not zero
NonEmptyNonZero(v) ==
    /\ ~IsNone(v)
    /\ (IsStr(v) \/ IsList(v)) => v.s # << >>
    /\ IsNumber(v) => NumOf(v) # 0
C29_ResultWellFormed ==
    (pc = "merge_one" /\ result.success) =>
        /\ Range(result.auto_resolved) \cap Range(result.manual_required) = {}
        /\ ConflictFields(result)
             = Range(result.auto_resolved) \cup Range(result.manual_required)
        /\ \A i \in 1..Len(result.conflicts), j \in 1..Len(result.conflicts) :
             result.conflicts[i].field_name = result.conflicts[j].field_name => i = j
        /\ \A i \in 1..Len(result.conflicts) :
             /\ NonEmptyNonZero(result.conflicts[i].existing_value)
             /\ ~EqualUnderTolerance(result.conflicts[i].existing_value,
                                     result.conflicts[i].new_value)

(***************************************************************************)
(* C30.  The two conflict detectors agree: for the same vessel, candidate  *)
(* map and candidate source (existing source database), the enhancement    *)
(* service's _identify_conflicts and the merger's merge_one flag the same  *)
(* set of fields, and for each flagged field they give the same            *)
(* suggested_resolution, field_type, reliability levels and confidence.    *)
(***************************************************************************)
\* what merge_one returns for the arguments of the _identify_conflicts call
MergerOnSameCall ==
    MergeVesselData(existing_vessel, call.new_data, call.new_source, "database", FALSE)
C30_DetectorsAgree ==
    (pc = "identify_conflicts" /\ ~identified.raised /\ MergerOnSameCall.success) =>
        LET theirs == identified.conflicts
            ours == MergerOnSameCall.conflicts
        IN  /\ {theirs[i].field_name : i \in 1..Len(theirs)}
                 = {ours[j].field_name : j \in 1..Len(ours)}
            /\ \A i \in 1..Len(theirs), j \in 1..Len(ours) :
                 theirs[i].field_name = ours[j].field_name =>
                    /\ theirs[i].suggested_resolution = ours[j].suggested_resolution
                    /\ theirs[i].field_type = ours[j].field_type
                    /\ theirs[i].existing_reliability = ours[j].existing_reliability
                    /\ theirs[i].new_reliability = ours[j].new_reliability
                    /\ theirs[i].confidence = ours[j].confidence

====
